---- MODULE Spec2Model ----
(***************************************************************************)
(* Opinion diffusion among mobile agents on a grid (Mini-Project-Three):   *)
(* the integrity-aware Environment (environment.py) and Agent (agent.py).  *)
(*                                                                         *)
(* Reals are fixed point: an integrity i of the program is the integer     *)
(* i * Scale, and a product with a decimal constant is the truncated       *)
(* integer quotient.  A random draw is a nondeterministic choice among the *)
(* outcomes of non-zero probability.                                       *)
(***************************************************************************)
EXTENDS Integers, Sequences, FiniteSets, TLC

\* ---------------------------------------------------------------- bounds
Width == 3
Height == 2
NumAgents == 3
PopSize == 2
MaxTicks == 1
MaxOps == 4

\* fixed-point denominator: a multiple of 3 (radius), 10 and 160 (strengths)
Scale == 3 * 1600

AgentIds == 1..NumAgents
Cells == (0..(Width - 1)) \X (0..(Height - 1))
Coords == (-1..Width) \X (-1..Height)
Opinions == {0, 1, 2}
NumFriendsArgs == {1, 8}

VARIABLES
    grid,             \* Environment.grid: cell -> 0 (empty) or 1 (occupied)
    agents,           \* Environment.agents: the list of tracked agents
    step_count,       \* Environment.step_count
    width,            \* Environment.width
    height,           \* Environment.height
    position,         \* Agent.position
    opinion,          \* Agent.opinion
    integrity,        \* Agent.integrity, in units of 1/Scale
    is_high_integrity,\* Agent.is_high_integrity
    is_student,       \* Agent.is_student
    friends,          \* Agent.friends: a list of agents
    target_location,  \* Agent.target_location
    assigned,         \* Agent.assigned_home / _work_or_school / _leisure
    pc,               \* where step() stands: "idle" between calls
    idx,              \* index of the agent whose turn it is in the pass
    todo,             \* agents the current agent has still to interact with
    calls,            \* interact calls of the current tick, in order
    turn,             \* the agents whose turn has begun, in each pass of the tick
    low,              \* agents with integrity < 1/3 all through the spatial pass
    last,             \* the last public call and what it returned
    ticks,            \* step() calls started so far
    nops,             \* public calls made so far
    opinion0,         \* the opinion each agent was constructed with
    created           \* all_agents of create_environment: the agents it has made

vars == <<grid, agents, step_count, width, height, position, opinion, integrity,
          is_high_integrity, is_student, friends, target_location, assigned,
          pc, idx, todo, calls, turn, low, last, ticks, nops, opinion0,
          created>>

dims == <<width, height>>
envVars == <<grid, agents, step_count, dims>>
agentVars == <<position, opinion, integrity, is_high_integrity, is_student,
               friends, target_location, assigned, opinion0>>
stepVars == <<pc, idx, todo, calls, turn, low, ticks, created>>

\* ------------------------------------------------------------- list helpers
Range(s) == {s[i] : i \in 1..Len(s)}

In(e, s) == \E i \in 1..Len(s) : s[i] = e

\* list.remove(e): drops the first occurrence
ListRemove(s, e) ==
    LET i == CHOOSE j \in 1..Len(s) : s[j] = e /\ \A k \in 1..(j - 1) : s[k] # e
    IN  SubSeq(s, 1, i - 1) \o SubSeq(s, i + 1, Len(s))

Count(s, e) == Cardinality({i \in 1..Len(s) : s[i] = e})

\* a list of the same length drawn from the elements with repetition
Shuffles_drawing(s) == [1..Len(s) -> Range(s)]

\* random.shuffle(list): every ordering of the same elements
Shuffles(s) ==
    {[i \in 1..Len(s) |-> s[p[i]]] : p \in Permutations(1..Len(s))}

Min(a, b) == IF a < b THEN a ELSE b
Max(a, b) == IF a > b THEN a ELSE b

\* ------------------------------------------------------------------- grid
InBounds(p) == 0 <= p[1] /\ p[1] < width /\ 0 <= p[2] /\ p[2] < height

\* numpy index i on an axis of length n: negative indices count from the end
NpValid(i, n) == -n <= i /\ i < n
NpIndex(i, n) == IF i < 0 THEN n + i ELSE i

Called(op, arg, ret) == [op |-> op, arg |-> arg, ret |-> ret]

\* Environment.add_agent
add_agent(a) ==
    /\ pc = "idle"
    /\ nops' = nops + 1
    /\ IF InBounds(position[a]) /\ grid[position[a]] = 0
       THEN /\ grid' = [grid EXCEPT ![position[a]] = 1]
            /\ agents' = Append(agents, a)
            /\ last' = Called("add_agent", 0, "True")
       ELSE /\ UNCHANGED <<grid, agents>>
            /\ last' = Called("add_agent", 0, "False")
    /\ UNCHANGED <<step_count, dims, agentVars, stepVars>>

\* Environment.remove_agent
remove_agent(a) ==
    /\ pc = "idle"
    /\ nops' = nops + 1
    /\ IF In(a, agents)
       THEN /\ grid' = [grid EXCEPT ![position[a]] = 0]
            /\ agents' = ListRemove(agents, a)
       ELSE UNCHANGED <<grid, agents>>
    /\ last' = Called("remove_agent", 0, "None")
    /\ UNCHANGED <<step_count, dims, agentVars, stepVars>>

\* validate_move without the occupancy test
validate_move_bounds_only(g, p) == InBounds(p)

\* Environment.validate_move
validate_move(g, p) == InBounds(p) /\ g[p] = 0

\* a move that leaves the cell it comes from marked as occupied
MoveResult_keeping(g, pos, a, p) ==
    IF validate_move(g, p)
    THEN [grid |-> [g EXCEPT ![p] = 1], position |-> [pos EXCEPT ![a] = p],
          ret |-> "True"]
    ELSE [grid |-> g, position |-> pos, ret |-> "False"]

\* Environment.move_agent as a function of the state: the new grid, the new
\* positions and the returned value
MoveResult(g, pos, a, p) ==
    IF validate_move(g, p)
    THEN IF NpValid(pos[a][2], height) /\ NpValid(pos[a][1], width)
         THEN LET old == <<NpIndex(pos[a][1], width), NpIndex(pos[a][2], height)>>
              IN  [grid |-> [[g EXCEPT ![old] = 0] EXCEPT ![p] = 1],
                   position |-> [pos EXCEPT ![a] = p],
                   ret |-> "True"]
         ELSE [grid |-> g, position |-> pos, ret |-> "IndexError"]
    ELSE [grid |-> g, position |-> pos, ret |-> "False"]

move_agent(a, p) ==
    /\ pc = "idle"
    /\ nops' = nops + 1
    /\ LET r == MoveResult(grid, position, a, p)
       IN  /\ grid' = r.grid
           /\ position' = r.position
           /\ last' = Called("move_agent", 0, r.ret)
    /\ UNCHANGED <<agents, step_count, dims, opinion, integrity, is_high_integrity,
                   is_student, friends, target_location, assigned, opinion0,
                   stepVars>>

\* ---------------------------------------------------------------- friends
\* add_friend without the append to the friend's own list
AddFriend_oneway(fr, a, b) ==
    IF ~In(b, fr[a]) /\ b # a THEN [fr EXCEPT ![a] = Append(@, b)] ELSE fr

\* add_friend without the test friend != self
AddFriend_self(fr, a, b) ==
    IF ~In(b, fr[a])
    THEN LET f1 == [fr EXCEPT ![a] = Append(@, b)]
         IN  IF ~In(a, f1[b]) THEN [f1 EXCEPT ![b] = Append(@, a)] ELSE f1
    ELSE fr

\* Agent.add_friend, on the friends lists fr
AddFriend(fr, a, b) ==
    IF ~In(b, fr[a]) /\ b # a
    THEN LET f1 == [fr EXCEPT ![a] = Append(@, b)]
         IN  IF ~In(a, f1[b]) THEN [f1 EXCEPT ![b] = Append(@, a)] ELSE f1
    ELSE fr

\* Agent.remove_friend
RemoveFriend(fr, a, b) ==
    IF In(b, fr[a])
    THEN LET f1 == [fr EXCEPT ![a] = ListRemove(@, b)]
         IN  IF In(a, f1[b]) THEN [f1 EXCEPT ![b] = ListRemove(@, a)] ELSE f1
    ELSE fr

\* the list comprehension without its test of the opinion
Available_any_opinion(fr, op, a, all_agents) ==
    SelectSeq(all_agents, LAMBDA b : b # a /\ ~In(b, fr[a]))

\* the list comprehension of Agent.add_friends
Available(fr, op, a, all_agents) ==
    SelectSeq(all_agents, LAMBDA b : b # a /\ ~In(b, fr[a]) /\ op[b] = op[a])

\* the while loop of Agent.add_friends: every friends state it can end in
RECURSIVE AddFriendsLoop(_, _, _, _)
AddFriendsLoop(fr, a, available, left) ==
    IF left > 0 /\ available # <<>>
    THEN UNION {AddFriendsLoop(AddFriend(fr, a, available[i]), a,
                               ListRemove(available, available[i]), left - 1)
                : i \in 1..Len(available)}
    ELSE {fr}

FriendOp(op) ==
    /\ pc = "idle"
    /\ nops' = nops + 1
    /\ last' = Called(op, 0, "None")
    /\ UNCHANGED <<envVars, position, opinion, integrity, is_high_integrity,
                   is_student, target_location, assigned, opinion0, stepVars>>

add_friend(a, b) ==
    /\ FriendOp("add_friend")
    /\ friends' = AddFriend(friends, a, b)

remove_friend(a, b) ==
    /\ FriendOp("remove_friend")
    /\ friends' = RemoveFriend(friends, a, b)

add_friends(a, all_agents, num_friends) ==
    /\ FriendOp("add_friends")
    /\ friends' \in AddFriendsLoop(friends, a,
                                   Available(friends, opinion, a, all_agents),
                                   num_friends)

\* ------------------------------------------------------------ interaction
\* Agent._update_integrity on the integrity i of a non-high-integrity agent
INFLUENCE_STRENGTH_DIV(is_friend) == IF is_friend THEN 160 ELSE 10

\* _update_integrity with 1.0 + integrity for 1.0 - integrity and no clamp
UpdateIntegrity_unclamped(i, same_opinion, is_positive, is_friend) ==
    LET d == INFLUENCE_STRENGTH_DIV(is_friend)
    IN  IF same_opinion = is_positive
        THEN i + ((Scale + i) \div d)
        ELSE i - ((Scale + i) \div d)

UpdateIntegrity(i, same_opinion, is_positive, is_friend) ==
    LET d == INFLUENCE_STRENGTH_DIV(is_friend)
    IN  IF same_opinion = is_positive
        THEN Min(Scale, i + ((Scale - i) \div d))
        ELSE Max(0, i - (i \div d))

\* _update_integrity taking a positive interaction for a negative one
update_integrity_reversed(ig, hi, a, same_opinion, is_positive, is_friend) ==
    IF hi[a] THEN ig
    ELSE [ig EXCEPT ![a] = UpdateIntegrity(@, same_opinion, ~is_positive, is_friend)]

update_integrity(ig, hi, a, same_opinion, is_positive, is_friend) ==
    IF hi[a] THEN ig
    ELSE [ig EXCEPT ![a] = UpdateIntegrity(@, same_opinion, is_positive, is_friend)]

\* change_probability with self and other the wrong way round
ChangeProbability_swapped(ig, a, b, is_friend) ==
    (Scale - ig[b]) * ig[a] * (IF is_friend THEN 1 ELSE 16)

\* change_probability of Agent._maybe_change_opinion, in units of
\* 1 / (32 * Scale * Scale)
ChangeProbability(ig, a, b, is_friend) ==
    (Scale - ig[a]) * ig[b] * (IF is_friend THEN 1 ELSE 16)

\* _maybe_change_opinion assigning to the other agent instead of self
maybe_change_opinion_other(op, ig, hi, a, b, is_friend, draw) ==
    IF hi[a] THEN op
    ELSE IF draw /\ ChangeProbability(ig, a, b, is_friend) > 0
         THEN [op EXCEPT ![b] = op[a]]
         ELSE op

\* Agent._maybe_change_opinion; draw is TRUE when random.random() falls
\* below change_probability, which it can only when that is positive
maybe_change_opinion(op, ig, hi, a, b, is_friend, draw) ==
    IF hi[a] THEN op
    ELSE IF draw /\ ChangeProbability(ig, a, b, is_friend) > 0
         THEN [op EXCEPT ![a] = op[b]]
         ELSE op

\* an interact that decides the opinion changes from the integrities the
\* agents had when it was called
Interact_stale(op, ig, hi, a, b, is_friend, is_positive, draw1, draw2) ==
    LET same_opinion == op[a] = op[b]
        ig1 == IF ~hi[a]
               THEN update_integrity(ig, hi, a, same_opinion, is_positive, is_friend)
               ELSE ig
        ig2 == IF ~hi[b]
               THEN update_integrity(ig1, hi, b, same_opinion, is_positive, is_friend)
               ELSE ig1
        op1 == IF ~hi[a]
               THEN maybe_change_opinion(op, ig, hi, a, b, is_friend, draw1)
               ELSE op
        op2 == IF ~hi[b]
               THEN maybe_change_opinion(op1, ig, hi, b, a, is_friend, draw2)
               ELSE op1
    IN  [opinion |-> op2, integrity |-> ig2,
         change_probability |->
             <<IF ~hi[a] THEN ChangeProbability(ig, a, b, is_friend) ELSE -1,
               IF ~hi[b] THEN ChangeProbability(ig, b, a, is_friend) ELSE -1>>]

\* an interact in which both agents decide on the opinions they had when it
\* was called
Interact_at_once(op, ig, hi, a, b, is_friend, is_positive, draw1, draw2) ==
    LET same_opinion == op[a] = op[b]
        ig1 == IF ~hi[a]
               THEN update_integrity(ig, hi, a, same_opinion, is_positive, is_friend)
               ELSE ig
        ig2 == IF ~hi[b]
               THEN update_integrity(ig1, hi, b, same_opinion, is_positive, is_friend)
               ELSE ig1
        op1 == IF ~hi[a]
               THEN maybe_change_opinion(op, ig2, hi, a, b, is_friend, draw1)
               ELSE op
        op2 == IF ~hi[b]
               THEN maybe_change_opinion(op, ig2, hi, b, a, is_friend, draw2)
               ELSE op
    IN  [opinion |-> [op1 EXCEPT ![b] = op2[b]], integrity |-> ig2,
         change_probability |->
             <<IF ~hi[a] THEN ChangeProbability(ig2, a, b, is_friend) ELSE -1,
               IF ~hi[b] THEN ChangeProbability(ig2, b, a, is_friend) ELSE -1>>]

\* Agent.interact: the opinions and integrities after a.interact(b), for one
\* outcome of its three random draws, and the change_probability each of the
\* two _maybe_change_opinion calls compared its draw with (-1 for a call not
\* made)
Interact(op, ig, hi, a, b, is_friend, is_positive, draw1, draw2) ==
    LET same_opinion == op[a] = op[b]
        ig1 == IF ~hi[a]
               THEN update_integrity(ig, hi, a, same_opinion, is_positive, is_friend)
               ELSE ig
        ig2 == IF ~hi[b]
               THEN update_integrity(ig1, hi, b, same_opinion, is_positive, is_friend)
               ELSE ig1
        op1 == IF ~hi[a]
               THEN maybe_change_opinion(op, ig2, hi, a, b, is_friend, draw1)
               ELSE op
        op2 == IF ~hi[b]
               THEN maybe_change_opinion(op1, ig2, hi, b, a, is_friend, draw2)
               ELSE op1
    IN  [opinion |-> op2, integrity |-> ig2,
         change_probability |->
             <<IF ~hi[a] THEN ChangeProbability(ig2, a, b, is_friend) ELSE -1,
               IF ~hi[b] THEN ChangeProbability(ig2, b, a, is_friend) ELSE -1>>]

InteractOutcomes(op, ig, hi, a, b, is_friend) ==
    {Interact(op, ig, hi, a, b, is_friend, pv, d1, d2) :
        pv \in BOOLEAN, d1 \in BOOLEAN, d2 \in BOOLEAN}

\* a.interact(b, is_friend) called on its own, for one outcome of its draws
interact_drawn(a, b, is_friend, is_positive, draw1, draw2) ==
    /\ pc = "idle"
    /\ nops' = nops
    /\ LET r == Interact(opinion, integrity, is_high_integrity, a, b, is_friend,
                         is_positive, draw1, draw2)
       IN  /\ opinion' = r.opinion
           /\ integrity' = r.integrity
    /\ last' = Called("interact", 0, "None")
    /\ UNCHANGED <<envVars, position, is_high_integrity, is_student, friends,
                   target_location, assigned, opinion0, stepVars>>

interact(a, b, is_friend) ==
    \E is_positive \in BOOLEAN, draw1 \in BOOLEAN, draw2 \in BOOLEAN :
        interact_drawn(a, b, is_friend, is_positive, draw1, draw2)

\* --------------------------------------------------------------- schedule
\* update_schedule with leisure lasting through day_step 100
update_schedule_late(student, step) ==
    LET day_step == step % 120
    IN  IF 10 <= day_step /\ day_step < 80
        THEN (IF student THEN "school" ELSE "work")
        ELSE IF 80 <= day_step /\ day_step <= 100 THEN "leisure"
        ELSE "home"

\* Agent.update_schedule: the target_location it sets
update_schedule(student, step) ==
    LET day_step == step % 120
    IN  IF student
        THEN IF 10 <= day_step /\ day_step < 20 THEN "school"
             ELSE IF 20 <= day_step /\ day_step < 80 THEN "school"
             ELSE IF 80 <= day_step /\ day_step < 100 THEN "leisure"
             ELSE IF 100 <= day_step /\ day_step < 110 THEN "home"
             ELSE "home"
        ELSE IF 10 <= day_step /\ day_step < 20 THEN "work"
             ELSE IF 20 <= day_step /\ day_step < 80 THEN "work"
             ELSE IF 80 <= day_step /\ day_step < 100 THEN "leisure"
             ELSE IF 100 <= day_step /\ day_step < 110 THEN "home"
             ELSE "home"

\* ----------------------------------------------------------------- layout
\* a block that starts at the centre less half its size, wherever that is
BlockCells_unclipped(c, size, w, h) ==
    IF c[1] + (size \div 2) < w /\ c[2] + (size \div 2) < h
    THEN LET start_x == c[1] - (size \div 2)
             start_y == c[2] - (size \div 2)
             nx == Min(start_x + size, w) - start_x
             ny == Min(start_y + size, h) - start_y
         IN  [k \in 1..(nx * ny) |->
                 <<start_x + ((k - 1) \div ny), start_y + ((k - 1) % ny)>>]
    ELSE <<>>

\* one block of Environment._setup_structure_bounds: the cells of the
\* structure centred at c, x outermost, clipped to a w by h grid
BlockCells(c, size, w, h) ==
    IF c[1] + (size \div 2) < w /\ c[2] + (size \div 2) < h
    THEN LET start_x == Max(0, c[1] - (size \div 2))
             start_y == Max(0, c[2] - (size \div 2))
             nx == Min(start_x + size, w) - start_x
             ny == Min(start_y + size, h) - start_y
         IN  [k \in 1..(nx * ny) |->
                 <<start_x + ((k - 1) \div ny), start_y + ((k - 1) % ny)>>]
    ELSE <<>>

RECURSIVE StructureBounds(_, _, _, _)
StructureBounds(centers, size, w, h) ==
    IF centers = <<>> THEN <<>>
    ELSE BlockCells(Head(centers), size, w, h)
         \o StructureBounds(Tail(centers), size, w, h)

structure_size == 12
leisure_size == 8

home_positions ==
    << <<10, 10>>, <<35, 8>>, <<60, 12>>, <<85, 10>>,
       <<15, 30>>, <<45, 28>>, <<75, 32>>, <<90, 35>>,
       <<5, 50>>, <<30, 48>>, <<55, 52>>, <<80, 50>> >>

work_positions ==
    << <<15, 70>>, <<40, 75>>, <<20, 90>>, <<45, 85>>, <<10, 85>>, <<35, 65>> >>

school_positions ==
    << <<65, 70>>, <<85, 75>>, <<70, 90>>, <<90, 85>>, <<55, 85>>, <<80, 65>> >>

leisure_positions ==
    << <<25, 65>>, <<75, 45>>, <<50, 75>>, <<20, 40>>,
       <<85, 40>>, <<50, 20>>, <<10, 65>>, <<90, 65>> >>

home_bounds == StructureBounds(home_positions, structure_size, width, height)
work_bounds == StructureBounds(work_positions, structure_size, width, height)
school_bounds == StructureBounds(school_positions, structure_size, width, height)
leisure_bounds == StructureBounds(leisure_positions, leisure_size, width, height)

\* the order of Python on tuples (x, y)
LexLess(p, q) == p[1] < q[1] \/ (p[1] = q[1] /\ p[2] < q[2])

\* sorted(bounds): the entry at index i goes to the place rank[i]; equal
\* entries keep their order
Sorted(bounds) ==
    LET s == bounds \o <<>>
        n == Len(s)
        rank == [i \in 1..n |->
                    Cardinality({j \in 1..n :
                                    \/ LexLess(s[j], s[i])
                                    \/ s[j] = s[i] /\ j <= i})] \o <<>>
        place == [k \in 1..n |-> CHOOSE i \in 1..n : rank[i] = k] \o <<>>
    IN  [k \in 1..n |-> s[place[k]]] \o <<>>

\* divide_structure_into_groups of create_environment
divide_structure_into_groups(bounds, num_groups) ==
    IF bounds = <<>> \/ num_groups <= 0 THEN <<>>
    ELSE LET sorted_bounds == Sorted(bounds)
             group_size == Len(sorted_bounds) \div num_groups
         IN  [i \in 1..num_groups |->
                 SubSeq(sorted_bounds, (i - 1) * group_size + 1,
                        IF i = num_groups THEN Len(sorted_bounds)
                        ELSE i * group_size)]

\* groups handed out in order, the last one to every agent past the list
GroupsOf_capped(i, student, hg, wg, sg, lg) ==
    [home |-> IF hg # <<>> THEN hg[Min(i, Len(hg) - 1) + 1] ELSE <<>>,
     work_or_school |->
         IF student /\ sg # <<>> THEN sg[Min(i, Len(sg) - 1) + 1]
         ELSE IF wg # <<>> THEN wg[Min(i, Len(wg) - 1) + 1] ELSE <<>>,
     leisure |-> IF lg # <<>> THEN lg[Min(i, Len(lg) - 1) + 1] ELSE <<>>]

\* the zone groups create_environment assigns to the agent it made as the
\* i-th (from 0): the groups of the environment's bounds, round robin, where
\* there are any
GroupsOf(i, student, hg, wg, sg, lg) ==
    [home |-> IF hg # <<>> THEN hg[(i % Len(hg)) + 1] ELSE <<>>,
     work_or_school |->
         IF student /\ sg # <<>> THEN sg[(i % Len(sg)) + 1]
         ELSE IF wg # <<>> THEN wg[(i % Len(wg)) + 1] ELSE <<>>,
     leisure |-> IF lg # <<>> THEN lg[(i % Len(lg)) + 1] ELSE <<>>]

home_groups == divide_structure_into_groups(home_bounds, 12)
work_groups == divide_structure_into_groups(work_bounds, 6)
school_groups == divide_structure_into_groups(school_bounds, 6)
leisure_groups == divide_structure_into_groups(leisure_bounds, 8)

AssignedGroups(i, student) ==
    GroupsOf(i, student, home_groups, work_groups, school_groups, leisure_groups)

\* --------------------------------------------------------------- movement
\* the bounds chosen at the head of _is_in_target_structure,
\* _move_toward_structure and _random_move_within_structure: the assigned
\* zone when it is set and non-empty, else the environment's bounds
TargetBounds(zones, target) ==
    IF target = "home" /\ zones.home # <<>> THEN zones.home
    ELSE IF target \in {"work", "school"} /\ zones.work_or_school # <<>>
         THEN zones.work_or_school
    ELSE IF target = "leisure" /\ zones.leisure # <<>> THEN zones.leisure
    ELSE IF target = "home" THEN home_bounds
    ELSE IF target = "work" THEN work_bounds
    ELSE IF target = "school" THEN school_bounds
    ELSE leisure_bounds

\* Agent._is_in_target_structure
is_in_target_structure(pos, zones, target) ==
    In(pos, TargetBounds(zones, target))

\* the sum of the k-th coordinates of the entries lo..hi of s, by halves
RECURSIVE SumFrom(_, _, _, _)
SumFrom(s, k, lo, hi) ==
    IF lo > hi THEN 0
    ELSE IF lo = hi THEN s[lo][k]
    ELSE LET mid == (lo + hi) \div 2
         IN  SumFrom(s, k, lo, mid) + SumFrom(s, k, mid + 1, hi)

\* sum(x for x, y in bounds) for k = 1, sum(y for x, y in bounds) for k = 2
SumSeq(s, k) == SumFrom(s, k, 1, Len(s))

\* Agent._move_toward_target
move_toward_target(pos, target_pos) ==
    LET dx == IF pos[1] < target_pos[1] THEN 1
              ELSE IF pos[1] > target_pos[1] THEN -1 ELSE 0
        dy == IF pos[2] < target_pos[2] THEN 1
              ELSE IF pos[2] > target_pos[2] THEN -1 ELSE 0
    IN  <<pos[1] + dx, pos[2] + dy>>

\* Agent._move_toward_structure
move_toward_structure(pos, zones, target) ==
    LET bounds == TargetBounds(zones, target)
    IN  IF bounds = <<>> THEN pos
        ELSE move_toward_target(pos, <<SumSeq(bounds, 1) \div Len(bounds),
                                       SumSeq(bounds, 2) \div Len(bounds)>>)

\* the choice taken among all the cells of the zone, the current one included
random_move_within_structure_any(pos, zones, target) ==
    LET bounds == TargetBounds(zones, target)
    IN  IF bounds # <<>> THEN Range(bounds) ELSE {pos}

\* Agent._random_move_within_structure: the positions random.choice can give
random_move_within_structure(pos, zones, target) ==
    LET bounds == TargetBounds(zones, target)
    IN  IF bounds # <<>>
        THEN LET available_positions == Range(bounds) \ {pos}
             IN  IF available_positions # {} THEN available_positions ELSE {pos}
        ELSE LET possible_moves ==
                     {q \in {<<pos[1] + 1, pos[2]>>, <<pos[1] - 1, pos[2]>>,
                             <<pos[1], pos[2] + 1>>, <<pos[1], pos[2] - 1>>} :
                         InBounds(q) /\ q # pos}
             IN  IF possible_moves # {} THEN possible_moves ELSE {pos}

\* Agent.propose_move: the positions it can return
propose_move(pos, zones, target) ==
    IF is_in_target_structure(pos, zones, target)
    THEN random_move_within_structure(pos, zones, target)
    ELSE {move_toward_structure(pos, zones, target)}

\* ------------------------------------------------------------------ step()
Low(ig) == {a \in AgentIds : 3 * ig[a] < Scale}

NoTurns == [move |-> {}, social |-> {}, spatial |-> {}]

\* the first random.shuffle of Environment.step
StepBegin ==
    /\ pc = "idle"
    /\ ticks < MaxTicks
    /\ ticks' = ticks + 1
    /\ agents' \in Shuffles(agents)
    /\ pc' = "move"
    /\ idx' = 1
    /\ calls' = <<>>
    /\ turn' = NoTurns
    /\ last' = Called("step", 0, "None")
    /\ UNCHANGED <<grid, step_count, dims, agentVars, todo, low, nops, created>>

\* one iteration of the movement loop of Environment.step, for the proposal
\* proposed_move of the agent whose turn it is
MoveTurnWith(proposed_move) ==
    /\ pc = "move"
    /\ idx <= Len(agents)
    /\ LET a == agents[idx]
           target == update_schedule(is_student[a], step_count)
       IN  /\ target_location' = [target_location EXCEPT ![a] = target]
           /\ proposed_move \in propose_move(position[a], assigned[a], target)
           /\ LET r == MoveResult(grid, position, a, proposed_move)
              IN  /\ grid' = r.grid
                  /\ position' = r.position
                  /\ last' = Called("move_agent", 0, r.ret)
                  /\ pc' = IF r.ret = "IndexError" THEN "idle" ELSE "move"
    /\ idx' = idx + 1
    /\ turn' = [turn EXCEPT !.move = @ \cup {agents[idx]}]
    /\ UNCHANGED <<agents, step_count, dims, opinion, integrity, is_high_integrity,
                   is_student, friends, assigned, opinion0, todo, calls, low,
                   ticks, nops, created>>

MoveTurn == \E proposed_move \in Coords : MoveTurnWith(proposed_move)

\* the movement loop left before the turn of the last agent of the list
MoveDone_early ==
    /\ pc = "move"
    /\ idx >= Len(agents)
    /\ agents' \in Shuffles(agents)
    /\ pc' = "social"
    /\ idx' = 1
    /\ UNCHANGED <<grid, step_count, dims, agentVars, todo, calls, turn, low, last,
                   ticks, nops, created>>

\* the movement loop ends: the second random.shuffle
MoveDone ==
    /\ pc = "move"
    /\ idx > Len(agents)
    /\ agents' \in Shuffles(agents)
    /\ pc' = "social"
    /\ idx' = 1
    /\ UNCHANGED <<grid, step_count, dims, agentVars, todo, calls, turn, low, last,
                   ticks, nops, created>>

\* n draws that may repeat an index
Samples_repeating(s, n) ==
    {[i \in 1..n |-> s[f[i]]] : f \in [1..n -> 1..Len(s)]}

\* random.sample(friends, n): every list of n entries at distinct indices
Samples(s, n) ==
    {[i \in 1..n |-> s[f[i]]] :
        f \in {g \in [1..n -> 1..Len(s)] :
                   \A i, j \in 1..n : i # j => g[i] # g[j]}}

\* one iteration of the friend loop: the friends to interact with are drawn
SocialTurn ==
    /\ pc = "social"
    /\ idx <= Len(agents)
    /\ LET a == agents[idx]
       IN  IF friends[a] # <<>>
           THEN /\ \E num_friend_interactions \in 1..Min(3, Len(friends[a])) :
                      todo' \in Samples(friends[a], num_friend_interactions)
                /\ pc' = "social_call"
                /\ idx' = idx
           ELSE /\ todo' = <<>>
                /\ pc' = "social"
                /\ idx' = idx + 1
    /\ turn' = [turn EXCEPT !.social = @ \cup {agents[idx]}]
    /\ UNCHANGED <<envVars, agentVars, calls, low, last, ticks, nops, created>>

\* one agent.interact(other) made by step(), with the outcome of its draws
StepInteract(is_friend, back) ==
    /\ todo # <<>>
    /\ LET a == agents[idx]
           b == Head(todo)
       IN  /\ \E r \in InteractOutcomes(opinion, integrity, is_high_integrity,
                                        a, b, is_friend) :
                 /\ opinion' = r.opinion
                 /\ integrity' = r.integrity
                 /\ low' = IF is_friend THEN low ELSE low \cap Low(r.integrity)
           /\ calls' = Append(calls, [self |-> a, other |-> b, friend |-> is_friend])
    /\ todo' = Tail(todo)
    /\ IF Tail(todo) = <<>>
       THEN pc' = back /\ idx' = idx + 1
       ELSE UNCHANGED <<pc, idx>>
    /\ UNCHANGED <<envVars, position, is_high_integrity, is_student, friends,
                   target_location, assigned, opinion0, turn, last, ticks, nops, created>>

SocialCall ==
    /\ pc = "social_call"
    /\ StepInteract(TRUE, "social")

\* the friend loop ends: the third random.shuffle
SocialDone ==
    /\ pc = "social"
    /\ idx > Len(agents)
    /\ agents' \in Shuffles(agents)
    /\ pc' = "spatial"
    /\ idx' = 1
    /\ low' = Low(integrity)
    /\ UNCHANGED <<grid, step_count, dims, agentVars, todo, calls, turn, last, ticks, nops, created>>

\* max_range rounding integrity * 3 up instead of truncating it
max_range_ceil(i) == Min(3, ((i * 3) + Scale - 1) \div Scale)

\* max_range of the spatial loop
max_range(i) == Min(3, (i * 3) \div Scale)

\* the offsets of loops that stop one short: range(-r, r)
ScanOffsets_short(r) ==
    [k \in 1..((2 * r) * (2 * r)) |->
        <<((k - 1) \div (2 * r)) - r, ((k - 1) % (2 * r)) - r>>]

\* the offsets (dx, dy) of the two nested range loops, in loop order
ScanOffsets(r) ==
    [k \in 1..((2 * r + 1) * (2 * r + 1)) |->
        <<((k - 1) \div (2 * r + 1)) - r, ((k - 1) % (2 * r + 1)) - r>>]

\* the agents the scan of agents[i] calls interact with, in scan order: for
\* each occupied in-bounds cell of the square but its centre, the first
\* agent of the list standing there, if any
ScanTargets(g, ags, pos, a, r) ==
    LET cellAt(k) == <<pos[a][1] + ScanOffsets(r)[k][1],
                       pos[a][2] + ScanOffsets(r)[k][2]>>
        hit(k) == /\ ScanOffsets(r)[k] # <<0, 0>>
                  /\ InBounds(cellAt(k))
                  /\ g[cellAt(k)] = 1
                  /\ \E i \in 1..Len(ags) : pos[ags[i]] = cellAt(k)
        first(k) == ags[CHOOSE i \in 1..Len(ags) :
                            /\ pos[ags[i]] = cellAt(k)
                            /\ \A j \in 1..(i - 1) : pos[ags[j]] # cellAt(k)]
        hits == SelectSeq([k \in 1..Len(ScanOffsets(r)) |-> k], hit)
    IN  [n \in 1..Len(hits) |-> first(hits[n])]

\* one iteration of the spatial loop: the range is fixed and the cells are
\* scanned (no interact call moves an agent or touches the grid)
SpatialTurn ==
    /\ pc = "spatial"
    /\ idx <= Len(agents)
    /\ LET a == agents[idx]
           found == ScanTargets(grid, agents, position, a, max_range(integrity[a]))
       IN  /\ todo' = found
           /\ IF found # <<>>
              THEN pc' = "spatial_call" /\ idx' = idx
              ELSE pc' = "spatial" /\ idx' = idx + 1
    /\ turn' = [turn EXCEPT !.spatial = @ \cup {agents[idx]}]
    /\ UNCHANGED <<envVars, agentVars, calls, low, last, ticks, nops, created>>

SpatialCall ==
    /\ pc = "spatial_call"
    /\ StepInteract(FALSE, "spatial")

\* the spatial loop ends: step_count += 1 and step() returns
SpatialDone ==
    /\ pc = "spatial"
    /\ idx > Len(agents)
    /\ step_count' = step_count + 1
    /\ pc' = "idle"
    /\ idx' = 0
    /\ calls' = <<>>
    /\ turn' = NoTurns
    /\ low' = {}
    /\ UNCHANGED <<grid, agents, dims, agentVars, todo, last, ticks, nops, created>>

\* ------------------------------------------------------------- statistics
\* the dict opinion_counts after the first k agents of the list
RECURSIVE OpinionCounts(_, _, _)
OpinionCounts(ags, op, k) ==
    IF k = 0 THEN << >>
    ELSE LET opinion_counts == OpinionCounts(ags, op, k - 1)
             o == op[ags[k]]
         IN  IF o \in DOMAIN opinion_counts
             THEN [opinion_counts EXCEPT ![o] = @ + 1]
             ELSE opinion_counts @@ (o :> 1)

\* the count taken over every agent made, tracked or not
opinion_distribution_of_all(ags, op) ==
    OpinionCounts([i \in 1..NumAgents |-> i], op, NumAgents)

\* what Environment.get_opinion_distribution returns
opinion_distribution(ags, op) == OpinionCounts(ags, op, Len(ags))

\* Environment.get_opinion_distribution
get_opinion_distribution ==
    /\ pc = "idle"
    /\ last' = Called("get_opinion_distribution", 0,
                      opinion_distribution(agents, opinion))
    /\ nops' = nops
    /\ UNCHANGED <<envVars, agentVars, stepVars>>

\* ------------------------------------------------------------ construction
\* the step counts the environment is first populated at (step() on an empty
\* environment only counts)
StartSteps == {0, 79}

\* what Agent(position, opinion, is_high_integrity) is called with, and the
\* values random.choice and random.uniform(0.3, 0.7) give, for agent a
InitPositions(a) ==
    IF a % 3 = 1 THEN {<<0, 0>>, <<1, 1>>}
    ELSE IF a % 3 = 2 THEN {<<1, 0>>, <<0, 0>>}
    ELSE {<<Width - 1, Height - 1>>, <<-1, 0>>, <<Width, 0>>}

InitOpinions(a) ==
    IF a % 3 = 1 THEN {0} ELSE IF a % 3 = 2 THEN {0, 1} ELSE {1, 2}

InitHighIntegrity(a) == IF a % 3 = 1 THEN {TRUE, FALSE} ELSE {FALSE}

InitIntegrities(a) ==
    IF a % 3 = 2 THEN {(3 * Scale) \div 10, Scale \div 2}
    ELSE {(7 * Scale) \div 10}

Student(a) == a % 2 = 0

\* the zones Agent.assign_structures is called with; an agent left without
\* zones falls back to the environment's bounds
Zones(a) ==
    IF a % 3 = 1
    THEN [home |-> << <<0, 0>>, <<0, 1>> >>,
          work_or_school |-> << <<Width - 1, 0>>, <<Width - 1, 1>> >>,
          leisure |-> << <<1, 1>> >>]
    ELSE IF a % 3 = 2
    THEN [home |-> << <<Width - 1, Height - 1>> >>,
          work_or_school |-> << <<0, 0>>, <<1, 0>>, <<0, 1>> >>,
          leisure |-> << <<1, 0>>, <<1, 1>> >>]
    ELSE [home |-> <<>>, work_or_school |-> <<>>, leisure |-> <<>>]

\* the functions that give every agent one of the values S allows it
Choices(S(_)) ==
    {f \in [AgentIds -> UNION {S(a) : a \in AgentIds}] :
        \A a \in AgentIds : f[a] \in S(a)}

\* Agent.__init__ for every agent but for its position
Attributes ==
    /\ opinion \in Choices(InitOpinions)
    /\ opinion0 = opinion
    /\ is_high_integrity \in Choices(InitHighIntegrity)
    /\ integrity \in {f \in [AgentIds -> {Scale} \cup UNION {InitIntegrities(a) : a \in AgentIds}] :
                         \A a \in AgentIds :
                             IF is_high_integrity[a] THEN f[a] = Scale
                             ELSE f[a] \in InitIntegrities(a)}
    /\ is_student = [a \in AgentIds |-> Student(a)]
    /\ target_location = [a \in AgentIds |-> "home"]
    /\ assigned = [a \in AgentIds |-> Zones(a)]
    /\ pc = "idle"
    /\ idx = 0
    /\ todo = <<>>
    /\ calls = <<>>
    /\ turn = NoTurns
    /\ low = {}
    /\ last = Called("init", 0, "None")
    /\ ticks = 0
    /\ nops = 0
    /\ created = <<>>

\* Agent.__init__ for every agent, and Environment.__init__
Constructed ==
    /\ position \in Choices(InitPositions)
    /\ Attributes

NoFriends == [a \in AgentIds |-> <<>>]

\* ------------------------------------------------------- the grid contract
\* the environment is empty and the agents are constructed; the public grid
\* operations are called in any order with any agent
MoveTargets == Cells \cup {<<-1, 0>>, <<Width, 0>>, <<0, -1>>, <<0, Height>>}

InitGrid ==
    /\ width = Width
    /\ height = Height
    /\ Constructed
    /\ \A a \in AgentIds : opinion[a] = IF a % 3 = 1 THEN 0 ELSE 1
    /\ \A a \in AgentIds : is_high_integrity[a] = (a % 3 = 1)
    /\ \A a \in AgentIds : a % 3 = 2 => integrity[a] = Scale \div 2
    /\ grid = [c \in Cells |-> 0]
    /\ agents = <<>>
    /\ step_count = 0
    /\ friends = NoFriends

NextGrid ==
    \/ \E a \in AgentIds : nops < MaxOps /\ add_agent(a)
    \/ \E a \in AgentIds : nops < MaxOps /\ remove_agent(a)
    \/ \E a \in AgentIds, p \in MoveTargets : nops < MaxOps /\ move_agent(a, p)

SpecGrid == InitGrid /\ [][NextGrid]_vars

\* ---------------------------------------------------------- the simulation
\* the first PopSize agents stand on cells of their own and are tracked, as
\* after create_environment; step() and interact are called in any order
Population == [i \in 1..PopSize |-> i]

FriendConfigs ==
    {NoFriends, AddFriend(AddFriend(NoFriends, 1, 2), 2, NumAgents)}

Init ==
    /\ width = Width
    /\ height = Height
    /\ Constructed
    /\ \A a \in AgentIds :
          /\ a % 3 = 2 => position[a] = <<1, 0>>
          /\ a % 3 = 0 => position[a] = <<Width - 1, Height - 1>> /\ opinion[a] = 1
    /\ grid = [c \in Cells |-> IF \E a \in 1..PopSize : position[a] = c THEN 1 ELSE 0]
    /\ agents = Population
    /\ step_count \in StartSteps
    /\ friends \in FriendConfigs

Next ==
    \/ StepBegin
    \/ MoveTurn
    \/ MoveDone
    \/ SocialTurn
    \/ SocialCall
    \/ SocialDone
    \/ SpatialTurn
    \/ SpatialCall
    \/ SpatialDone
    \/ get_opinion_distribution

Spec == Init /\ [][Next]_vars

\* --------------------------------------------------- neighbours on the move
\* the first agent stands at the origin on its way to work (or at home), the
\* second above it inside its school zone: each can propose the other's cell
\* and the cell the other leaves
Neighbours(a) ==
    IF a % 3 = 1 THEN <<0, 0>>
    ELSE IF a % 3 = 2 THEN <<0, 1>>
    ELSE <<Width - 1, Height - 1>>

InitCommit ==
    /\ width = Width
    /\ height = Height
    /\ position = [a \in AgentIds |-> Neighbours(a)]
    /\ Attributes
    /\ \A a \in AgentIds : a % 3 = 0 => opinion[a] = 1
    /\ grid = [c \in Cells |-> IF \E a \in 1..PopSize : position[a] = c THEN 1 ELSE 0]
    /\ agents = Population
    /\ step_count \in StartSteps
    /\ friends \in FriendConfigs

SpecCommit == InitCommit /\ [][Next]_vars

\* ------------------------------------------------------- the social graph
\* the agents stand as in the simulation and have no friends yet; the three
\* friendship operations are called in any order
AllAgents == [i \in 1..NumAgents |-> i]

InitFriends ==
    /\ Init
    /\ step_count = 0
    /\ friends = NoFriends
    /\ \A a \in AgentIds : is_high_integrity[a] = (a % 3 = 1)

NextFriends ==
    \/ \E a, b \in AgentIds : nops < MaxOps /\ add_friend(a, b)
    \/ \E a, b \in AgentIds : nops < MaxOps /\ remove_friend(a, b)
    \/ \E a \in AgentIds, all_agents \in {agents, AllAgents},
          num_friends \in NumFriendsArgs :
          nops < MaxOps /\ add_friends(a, all_agents, num_friends)

SpecFriends == InitFriends /\ [][NextFriends]_vars

\* ------------------------------------------------- building the friendships
FriendCap == 1

\* one iteration of the last loop of create_environment, which passes
\* num_friends = 8: agent.add_friends(env.agents, num_friends) with FriendCap
\* for the 8
BefriendTurn ==
    /\ pc = "befriend"
    /\ idx <= Len(agents)
    /\ friends' \in AddFriendsLoop(friends, agents[idx],
                                   Available(friends, opinion, agents[idx], agents),
                                   FriendCap)
    /\ idx' = idx + 1
    /\ UNCHANGED <<envVars, position, opinion, integrity, is_high_integrity,
                   is_student, target_location, assigned, opinion0, pc, todo,
                   calls, turn, low, last, ticks, nops, created>>

\* create_environment returns env
BuildDone ==
    /\ pc = "befriend"
    /\ idx > Len(agents)
    /\ pc' = "idle"
    /\ idx' = 0
    /\ UNCHANGED <<envVars, agentVars, todo, calls, turn, low, last, ticks, nops,
                   created>>

NoZones == [home |-> <<>>, work_or_school |-> <<>>, leisure |-> <<>>]

\* the a-th cell of the grid in row-major order
RowMajorCell(a, w) == <<(a - 1) % w, (a - 1) \div w>>

\* create_environment has placed the agents and is about to enter its last
\* loop. The agents that found their cell taken were dropped by add_agent, so
\* the population is any selection of the agents made, in the order they
\* were made: the ordinary ones by opinion, then the high-integrity ones by
\* opinion
InitSocial ==
    /\ width = Width
    /\ height = Height
    /\ grid = [c \in Cells |->
                  IF \E a \in AgentIds : RowMajorCell(a, Width) = c THEN 1 ELSE 0]
    /\ agents = AllAgents
    /\ created = AllAgents
    /\ step_count = 0
    /\ position = [a \in AgentIds |-> RowMajorCell(a, Width)]
    /\ is_high_integrity \in [AgentIds -> BOOLEAN]
    /\ opinion \in [AgentIds -> Opinions]
    /\ \A a, b \in AgentIds :
          a < b => /\ is_high_integrity[a] => is_high_integrity[b]
                   /\ is_high_integrity[a] = is_high_integrity[b]
                         => opinion[a] <= opinion[b]
    /\ opinion0 = opinion
    /\ integrity = [a \in AgentIds |->
                       IF is_high_integrity[a] THEN Scale ELSE Scale \div 2]
    /\ is_student \in [AgentIds -> BOOLEAN]
    /\ target_location = [a \in AgentIds |-> "home"]
    /\ assigned = [a \in AgentIds |-> NoZones]
    /\ friends = NoFriends
    /\ pc = "befriend"
    /\ idx = 1
    /\ todo = <<>>
    /\ calls = <<>>
    /\ turn = NoTurns
    /\ low = {}
    /\ last = Called("create_environment", 0, "None")
    /\ ticks = 0
    /\ nops = 0

NextSocial ==
    \/ BefriendTurn
    \/ BuildDone

SpecSocial == InitSocial /\ [][NextSocial]_vars

\* --------------------------------------------------------- the friend loop
CircleSize == 6

CircleIds == 1..CircleSize

Hub == 1

\* the friend loop of one tick in a population where the ordinary agent Hub
\* is the friend of all but the last agent, which has no friend; the others
\* are high-integrity agents. The loop begins after the second shuffle, which
\* left the list in either order
InitCircle ==
    /\ width = Width
    /\ height = Height
    /\ position = [a \in CircleIds |-> RowMajorCell(a, Width)]
    /\ grid = [c \in Cells |->
                  IF \E a \in CircleIds : RowMajorCell(a, Width) = c
                  THEN 1 ELSE 0]
    /\ agents \in {[i \in 1..CircleSize |-> i],
                   [i \in 1..CircleSize |-> CircleSize + 1 - i]}
    /\ created = [i \in 1..CircleSize |-> i]
    /\ step_count \in StartSteps
    /\ opinion = [a \in CircleIds |-> a % 3]
    /\ opinion0 = opinion
    /\ is_high_integrity = [a \in CircleIds |-> a # Hub]
    /\ integrity = [a \in CircleIds |-> IF a = Hub THEN Scale \div 2 ELSE Scale]
    /\ is_student = [a \in CircleIds |-> FALSE]
    /\ target_location = [a \in CircleIds |-> "home"]
    /\ assigned = [a \in CircleIds |-> NoZones]
    /\ friends = [a \in CircleIds |->
                     IF a = Hub THEN [i \in 1..(CircleSize - 2) |-> i + 1]
                     ELSE IF a < CircleSize THEN <<Hub>> ELSE <<>>]
    /\ pc = "social"
    /\ idx = 1
    /\ todo = <<>>
    /\ calls = <<>>
    /\ turn = [NoTurns EXCEPT !.move = CircleIds]
    /\ low = {}
    /\ last = Called("step", 0, "None")
    /\ ticks = 1
    /\ nops = 0

NextCircle ==
    \/ SocialTurn
    \/ SocialCall

SpecCircle == InitCircle /\ [][NextCircle]_vars

\* ------------------------------------------------------ interactions alone
\* a.interact(b, is_friend) called on its own, for one outcome of its draws;
\* the call is recorded with what the draws were compared with
interact_call(a, b, is_friend, is_positive, draw1, draw2) ==
    /\ pc = "idle"
    /\ nops < MaxOps
    /\ nops' = nops + 1
    /\ LET r == Interact(opinion, integrity, is_high_integrity, a, b, is_friend,
                         is_positive, draw1, draw2)
       IN  /\ opinion' = r.opinion
           /\ integrity' = r.integrity
           /\ last' = Called("interact",
                             [self |-> a, other |-> b, is_friend |-> is_friend,
                              is_positive |-> is_positive,
                              change_probability |-> r.change_probability],
                             "None")
    /\ UNCHANGED <<envVars, position, is_high_integrity, is_student, friends,
                   target_location, assigned, opinion0, stepVars>>

\* the two tracked agents, the first of either kind, interact any number of
\* times in either direction
InitInteract ==
    /\ Init
    /\ step_count = 0
    /\ friends = NoFriends
    /\ position[1] = <<0, 0>>
    /\ \A a \in AgentIds : a % 3 = 0 => opinion[a] = 1

NextInteract ==
    \E a \in 1..PopSize, b \in 1..PopSize, is_friend \in BOOLEAN,
       is_positive \in BOOLEAN, draw1 \in BOOLEAN, draw2 \in BOOLEAN :
        a # b /\ interact_call(a, b, is_friend, is_positive, draw1, draw2)

SpecInteract == InitInteract /\ [][NextInteract]_vars

\* ------------------------------------------------------------ the proposal
Mover == 1

Targets == {"home", "work", "school", "leisure"}

\* the cell lists an agent's zones are set to: none, one cell, two cells
\* apart in a row, two cells in a column, three cells around a corner
ZoneArgs ==
    {<<>>,
     << <<0, 0>> >>,
     << <<0, 0>>, <<Width - 1, 0>> >>,
     << <<0, 0>>, <<0, 1>> >>,
     << <<1, 0>>, <<1, 1>>, <<0, 1>> >>}

\* agent.propose_move(environment)
ProposeMoveCall(a) ==
    /\ pc = "idle"
    /\ \E p \in propose_move(position[a], assigned[a], target_location[a]) :
          last' = Called("propose_move", a, p)
    /\ nops' = nops
    /\ UNCHANGED <<envVars, agentVars, stepVars>>

\* one agent stands alone on any cell, with any zones and any target
InitPropose ==
    /\ width = Width
    /\ height = Height
    /\ position \in {f \in [AgentIds -> Cells] :
                        \A a \in AgentIds \ {Mover} : f[a] = <<0, 0>>}
    /\ grid = [c \in Cells |-> IF c = position[Mover] THEN 1 ELSE 0]
    /\ agents = <<Mover>>
    /\ created = <<Mover>>
    /\ step_count = 0
    /\ opinion = [a \in AgentIds |-> 0]
    /\ opinion0 = opinion
    /\ is_high_integrity = [a \in AgentIds |-> FALSE]
    /\ integrity = [a \in AgentIds |-> Scale \div 2]
    /\ is_student = [a \in AgentIds |-> FALSE]
    /\ target_location \in {f \in [AgentIds -> Targets] :
                               \A a \in AgentIds \ {Mover} : f[a] = "home"}
    /\ assigned \in {f \in [AgentIds -> [home : ZoneArgs,
                                          work_or_school : ZoneArgs,
                                          leisure : ZoneArgs]] :
                        \A a \in AgentIds \ {Mover} : f[a] = NoZones}
    /\ friends = NoFriends
    /\ pc = "idle"
    /\ idx = 0
    /\ todo = <<>>
    /\ calls = <<>>
    /\ turn = NoTurns
    /\ low = {}
    /\ last = Called("init", 0, "None")
    /\ ticks = 0
    /\ nops = 0

NextPropose == ProposeMoveCall(Mover)

SpecPropose == InitPropose /\ [][NextPropose]_vars

\* ------------------------------------------------------------ a pair alone
\* a high-integrity agent of opinion 0 and an ordinary agent of opinion 1
\* interact with each other only, as friends or as neighbours, either one
\* initiating
High == 1
Ordinary == 2

InitPair ==
    /\ Init
    /\ step_count = 0
    /\ friends = NoFriends
    /\ position[High] = <<0, 0>>
    /\ is_high_integrity[High]
    /\ opinion[Ordinary] = 1

NextPair ==
    \E a \in {High, Ordinary}, b \in {High, Ordinary}, is_friend \in BOOLEAN :
        a # b /\ interact(a, b, is_friend)

SpecPair == InitPair /\ [][NextPair]_vars

\* an interaction in which the random draws of both agents fall below their
\* change probabilities
PairDrawsFall ==
    \E a \in {High, Ordinary}, b \in {High, Ordinary}, is_friend \in BOOLEAN,
       is_positive \in BOOLEAN :
        a # b /\ interact_drawn(a, b, is_friend, is_positive, TRUE, TRUE)

\* a draw of positive probability, tried again and again, falls in the end
FairPair == SpecPair /\ SF_vars(PairDrawsFall)

\* --------------------------------------------------------------- the layout
\* Environment(width, height) for the default size and for sizes about the
\* edges of the structures; _setup_structure_bounds can be run again
default_width == 100
default_height == 100

WidthArgs == {0, 1, 16, 17, 21, 22, 55, 56, 96, 97, default_width}
HeightArgs == {0, 1, 16, 17, 35, 36, 58, 59, 96, 97, default_height}

CellsOf(w, h) == (0..(w - 1)) \X (0..(h - 1))

setup_structure_bounds ==
    /\ pc = "idle"
    /\ last' = Called("_setup_structure_bounds", 0, "None")
    /\ nops' = nops
    /\ UNCHANGED <<envVars, agentVars, stepVars>>

InitLayout ==
    /\ width \in WidthArgs
    /\ height \in HeightArgs
    /\ Constructed
    /\ \A a \in AgentIds :
          position[a] = CHOOSE p \in InitPositions(a) : p \in Cells
    /\ \A a \in AgentIds : opinion[a] = IF a % 3 = 1 THEN 0 ELSE 1
    /\ \A a \in AgentIds : is_high_integrity[a] = (a % 3 = 1)
    /\ \A a \in AgentIds : a % 3 = 2 => integrity[a] = Scale \div 2
    /\ grid = [c \in CellsOf(width, height) |-> 0]
    /\ agents = <<>>
    /\ step_count = 0
    /\ friends = NoFriends

NextLayout == setup_structure_bounds

SpecLayout == InitLayout /\ [][NextLayout]_vars

\* ------------------------------------------------------- create_environment
MaxNumAgents == 5

\* high_integrity_ratio in tenths: 0.0, the default 0.1, and 1.0
RatioTenths == {0, 1, 10}

\* the grids create_environment is called for
BuildDims == {<<0, Height>>, <<1, 1>>, <<2, 1>>, <<Width, Height>>}

\* what random.uniform(0.3, 0.7) gives an ordinary agent
IntegrityDraws == {(3 * Scale) \div 10, (7 * Scale) \div 10}

\* the iterations of the two creation loops, in order: opinions_per_agent
\* ordinary agents for each opinion, then high_integrity_per_opinion
\* high-integrity agents for each opinion
CreatePlan(num_agents, ratio_tenths) ==
    LET num_high_integrity == (num_agents * ratio_tenths) \div 10
        num_regular_agents == num_agents - num_high_integrity
        opinions_per_agent == num_regular_agents \div 3
        high_integrity_per_opinion == num_high_integrity \div 3
    IN  [k \in 1..(3 * opinions_per_agent + 3 * high_integrity_per_opinion) |->
            IF k <= 3 * opinions_per_agent
            THEN [opinion |-> (k - 1) \div opinions_per_agent,
                  is_high_integrity |-> FALSE]
            ELSE [opinion |-> (k - 1 - 3 * opinions_per_agent)
                                 \div high_integrity_per_opinion,
                  is_high_integrity |-> TRUE]]

\* the empty cells, column by column
get_empty_cells_by_column(g, w, h) ==
    SelectSeq([k \in 1..(w * h) |-> <<(k - 1) \div h, (k - 1) % h>>],
              LAMBDA c : g[c] = 0)

\* Environment.get_empty_cells: the empty cells, row by row
get_empty_cells(g, w, h) ==
    SelectSeq([k \in 1..(w * h) |-> <<(k - 1) % w, (k - 1) \div w>>],
              LAMBDA c : g[c] = 0)

Plan == CreatePlan(last.arg.num_agents, last.arg.ratio_tenths)

\* one iteration of a creation loop: an agent is made on a cell drawn from
\* the empty cells, if there is one
CreateAgent ==
    /\ pc = "create"
    /\ idx <= Len(Plan)
    /\ LET empty_cells == get_empty_cells(grid, width, height)
           a == Len(created) + 1
       IN  IF empty_cells # <<>>
           THEN \E p \in Range(empty_cells), student \in BOOLEAN,
                   ig \in IntegrityDraws :
                    /\ position' = [position EXCEPT ![a] = p]
                    /\ opinion' = [opinion EXCEPT ![a] = Plan[idx].opinion]
                    /\ opinion0' = [opinion0 EXCEPT ![a] = Plan[idx].opinion]
                    /\ is_high_integrity' =
                          [is_high_integrity EXCEPT
                              ![a] = Plan[idx].is_high_integrity]
                    /\ integrity' =
                          [integrity EXCEPT
                              ![a] = IF Plan[idx].is_high_integrity
                                     THEN Scale ELSE ig]
                    /\ is_student' = [is_student EXCEPT ![a] = student]
                    /\ created' = Append(created, a)
           ELSE UNCHANGED <<position, opinion, opinion0, is_high_integrity,
                            integrity, is_student, created>>
    /\ idx' = idx + 1
    /\ UNCHANGED <<envVars, friends, target_location, assigned, pc, todo,
                   calls, turn, low, last, ticks, nops>>

\* the creation loops are over
CreateDone ==
    /\ pc = "create"
    /\ idx > Len(Plan)
    /\ pc' = "place"
    /\ idx' = 1
    /\ UNCHANGED <<envVars, agentVars, todo, calls, turn, low, last, ticks,
                   nops, created>>

\* the assignment loop with an add_agent that does not look at the grid
PlaceAgent_unchecked ==
    /\ pc = "place"
    /\ idx <= Len(created)
    /\ LET a == created[idx]
       IN  /\ assigned' = [assigned EXCEPT
                              ![a] = AssignedGroups(idx - 1, is_student[a])]
           /\ grid' = [grid EXCEPT ![position[a]] = 1]
           /\ agents' = Append(agents, a)
    /\ idx' = idx + 1
    /\ UNCHANGED <<step_count, dims, position, opinion, integrity,
                   is_high_integrity, is_student, target_location, friends,
                   opinion0, pc, todo, calls, turn, low, last, ticks, nops,
                   created>>

\* one iteration of the assignment loop: the agent made as the idx-th gets
\* its zone groups and is handed to env.add_agent
PlaceAgent ==
    /\ pc = "place"
    /\ idx <= Len(created)
    /\ LET a == created[idx]
       IN  /\ assigned' = [assigned EXCEPT
                              ![a] = AssignedGroups(idx - 1, is_student[a])]
           /\ IF InBounds(position[a]) /\ grid[position[a]] = 0
              THEN /\ grid' = [grid EXCEPT ![position[a]] = 1]
                   /\ agents' = Append(agents, a)
              ELSE UNCHANGED <<grid, agents>>
    /\ idx' = idx + 1
    /\ UNCHANGED <<step_count, dims, position, opinion, integrity,
                   is_high_integrity, is_student, target_location, friends,
                   opinion0, pc, todo, calls, turn, low, last, ticks, nops,
                   created>>

\* the assignment loop is over
PlaceDone ==
    /\ pc = "place"
    /\ idx > Len(created)
    /\ pc' = "befriend"
    /\ idx' = 1
    /\ UNCHANGED <<envVars, agentVars, todo, calls, turn, low, last, ticks,
                   nops, created>>

\* create_environment(width, height, num_agents, high_integrity_ratio) has
\* built the empty environment and is about to create the agents
InitBuild ==
    /\ \E d \in BuildDims : width = d[1] /\ height = d[2]
    /\ grid = [c \in CellsOf(width, height) |-> 0]
    /\ agents = <<>>
    /\ created = <<>>
    /\ step_count = 0
    /\ position = [a \in AgentIds |-> <<0, 0>>]
    /\ opinion = [a \in AgentIds |-> 0]
    /\ opinion0 = opinion
    /\ is_high_integrity = [a \in AgentIds |-> FALSE]
    /\ integrity = [a \in AgentIds |-> Scale \div 2]
    /\ is_student = [a \in AgentIds |-> FALSE]
    /\ target_location = [a \in AgentIds |-> "home"]
    /\ assigned = [a \in AgentIds |-> NoZones]
    /\ friends = NoFriends
    /\ pc = "create"
    /\ idx = 1
    /\ todo = <<>>
    /\ calls = <<>>
    /\ turn = NoTurns
    /\ low = {}
    /\ \E num_agents \in 0..MaxNumAgents, ratio_tenths \in RatioTenths :
          /\ Len(CreatePlan(num_agents, ratio_tenths)) <= NumAgents
          /\ last = Called("create_environment",
                           [num_agents |-> num_agents,
                            ratio_tenths |-> ratio_tenths], "None")
    /\ ticks = 0
    /\ nops = 0

NextBuild ==
    \/ CreateAgent
    \/ CreateDone
    \/ PlaceAgent
    \/ PlaceDone
    \/ BefriendTurn
    \/ BuildDone

SpecBuild == InitBuild /\ [][NextBuild]_vars

\* create_environment is a sequential program: it takes its next step
FairBuild == SpecBuild /\ WF_vars(NextBuild)

\* ------------------------------------------------------ removal and ticks
\* two befriended agents are tracked, as create_environment leaves them;
\* env.remove_agent is called between ticks
InitRemove ==
    /\ width = Width
    /\ height = Height
    /\ Constructed
    /\ \A a \in AgentIds :
          /\ a % 3 = 1 => position[a] \in {<<0, 0>>, <<1, 1>>}
          /\ a % 3 = 2 => position[a] = <<1, 0>>
          /\ a % 3 = 0 => position[a] = <<Width - 1, Height - 1>> /\ opinion[a] = 1
    /\ grid = [c \in Cells |-> IF \E a \in 1..PopSize : position[a] = c THEN 1 ELSE 0]
    /\ agents = Population
    /\ step_count = 0
    /\ friends = AddFriend(NoFriends, 1, 2)

NextRemove ==
    \/ Next
    \/ \E a \in 1..PopSize : nops < MaxOps /\ remove_agent(a)

SpecRemove == InitRemove /\ [][NextRemove]_vars

\* ------------------------------------------------------ the way to a zone
\* one agent is alone on the default grid with the zone groups
\* create_environment gives the agent it makes first; its target
\* is held, and the body of the movement loop (propose_move, move_agent) is
\* run for it tick after tick
PursueIndices == {0}

PursueStarts == {<<0, 0>>, <<default_width - 1, default_height - 1>>}

PursueTargets == {"home", "leisure"}

InitPursue ==
    /\ width = default_width
    /\ height = default_height
    /\ \E p \in PursueStarts :
          position = [a \in AgentIds |-> IF a = Mover THEN p ELSE <<0, 0>>]
    /\ grid = [c \in CellsOf(width, height) |->
                  IF c = position[Mover] THEN 1 ELSE 0]
    /\ agents = <<Mover>>
    /\ created = <<Mover>>
    /\ step_count = 0
    /\ opinion = [a \in AgentIds |-> 0]
    /\ opinion0 = opinion
    /\ is_high_integrity = [a \in AgentIds |-> FALSE]
    /\ integrity = [a \in AgentIds |-> Scale \div 2]
    /\ is_student = [a \in AgentIds |-> FALSE]
    /\ \E t \in PursueTargets :
          target_location = [a \in AgentIds |-> IF a = Mover THEN t ELSE "home"]
    /\ \E i \in PursueIndices :
          assigned = [a \in AgentIds |->
                         IF a = Mover THEN AssignedGroups(i, FALSE) ELSE NoZones]
    /\ friends = NoFriends
    /\ pc = "idle"
    /\ idx = 0
    /\ todo = <<>>
    /\ calls = <<>>
    /\ turn = NoTurns
    /\ low = {}
    /\ last = Called("init", 0, "None")
    /\ ticks = 0
    /\ nops = 0

\* proposed_move = agent.propose_move(self); self.move_agent(agent, proposed_move)
PursueTurn ==
    /\ pc = "idle"
    /\ \E proposed_move \in propose_move(position[Mover], assigned[Mover],
                                          target_location[Mover]) :
          LET r == MoveResult(grid, position, Mover, proposed_move)
          IN  /\ grid' = r.grid
              /\ position' = r.position
              /\ last' = Called("move_agent", 0, r.ret)
    /\ nops' = nops
    /\ UNCHANGED <<agents, step_count, dims, opinion, integrity, is_high_integrity,
                   is_student, friends, target_location, assigned, opinion0,
                   stepVars>>

NextPursue == PursueTurn

SpecPursue == InitPursue /\ [][NextPursue]_vars

\* step() is called tick after tick: the movement loop takes its next turn
FairPursue == SpecPursue /\ WF_vars(PursueTurn)

\* ------------------------------------------- populating, befriending, ticks
\* the environment is empty and the agents are constructed; add_agent,
\* add_friend, add_friends and step() are called in any order
NextPublic ==
    \/ \E a \in AgentIds : nops < MaxOps /\ add_agent(a)
    \/ \E a, b \in AgentIds : nops < MaxOps /\ add_friend(a, b)
    \/ \E a \in AgentIds : nops < MaxOps /\ add_friends(a, agents, FriendCap)
    \/ StepBegin
    \/ MoveTurn
    \/ MoveDone
    \/ SocialTurn
    \/ SocialCall
    \/ SocialDone
    \/ SpatialTurn
    \/ SpatialCall
    \/ SpatialDone

SpecPublic == InitGrid /\ [][NextPublic]_vars

\* ---------------------------------------------------------- the empty cells
\* env.get_empty_cells() is called between the grid operations
get_empty_cells_call ==
    /\ pc = "idle"
    /\ last' = Called("get_empty_cells", 0, get_empty_cells(grid, width, height))
    /\ nops' = nops
    /\ UNCHANGED <<envVars, agentVars, pc, idx, todo, calls, turn, low, ticks,
                   created>>

NextCells ==
    \/ NextGrid
    \/ get_empty_cells_call

SpecCells == InitGrid /\ [][NextCells]_vars

\* ------------------------------------------------- the assignment at scale
\* create_environment(default_width, default_height, AssignAgents, 0.0) has
\* made its agents and is about to assign their zones. The cells were drawn
\* while the grid was empty: the first agent and all from the third on drew
\* the origin, the second the cell beside it, so add_agent tracks two agents
AssignAgents == 15

Made == 1..Len(CreatePlan(AssignAgents, 0))

InitAssignPosition(a) == IF a = 2 THEN <<1, 0>> ELSE <<0, 0>>

InitAssign ==
    /\ width = default_width
    /\ height = default_height
    /\ grid = [c \in CellsOf(width, height) |-> 0]
    /\ agents = <<>>
    /\ created = [a \in Made |-> a]
    /\ step_count = 0
    /\ position = [a \in Made |-> InitAssignPosition(a)]
    /\ opinion = [a \in Made |-> CreatePlan(AssignAgents, 0)[a].opinion]
    /\ opinion0 = opinion
    /\ is_high_integrity = [a \in Made |-> FALSE]
    /\ integrity = [a \in Made |-> Scale \div 2]
    /\ is_student = [a \in Made |-> Student(a)]
    /\ target_location = [a \in Made |-> "home"]
    /\ assigned = [a \in Made |-> NoZones]
    /\ friends = [a \in Made |-> <<>>]
    /\ pc = "place"
    /\ idx = 1
    /\ todo = <<>>
    /\ calls = <<>>
    /\ turn = NoTurns
    /\ low = {}
    /\ last = Called("create_environment",
                     [num_agents |-> AssignAgents, ratio_tenths |-> 0], "None")
    /\ ticks = 0
    /\ nops = 0

\* one iteration of the movement loop on a grid of any size
MoveTurnOn ==
    /\ pc = "move"
    /\ idx <= Len(agents)
    /\ \E proposed_move \in
            propose_move(position[agents[idx]], assigned[agents[idx]],
                         update_schedule(is_student[agents[idx]], step_count)) :
          MoveTurnWith(proposed_move)

NextAssign ==
    \/ PlaceAgent
    \/ PlaceDone
    \/ BefriendTurn
    \/ BuildDone
    \/ StepBegin
    \/ MoveTurnOn
    \/ MoveDone
    \/ SocialTurn
    \/ SocialCall
    \/ SocialDone
    \/ SpatialTurn
    \/ SpatialCall
    \/ SpatialDone

SpecAssign == InitAssign /\ [][NextAssign]_vars

\* ------------------------------------------------------------ the day cycle
\* update_schedule(step) is called on any agent with any step
MaxSchedStep == 239

update_schedule_call(a, step) ==
    /\ pc = "idle"
    /\ target_location' = [target_location EXCEPT
                              ![a] = update_schedule(is_student[a], step)]
    /\ last' = Called("update_schedule", step, "None")
    /\ nops' = nops
    /\ UNCHANGED <<envVars, position, opinion, integrity, is_high_integrity,
                   is_student, friends, assigned, opinion0, stepVars>>

InitSched ==
    /\ InitGrid
    /\ \A a \in AgentIds : position[a] = CHOOSE p \in InitPositions(a) : InBounds(p)

NextSched ==
    \E a \in 1..PopSize, step \in 0..MaxSchedStep : update_schedule_call(a, step)

SpecSched == InitSched /\ [][NextSched]_vars

\* -------------------------------- the plain variant (agentic-info-spread.py)
\* Environment.move_agent of the plain variant: the new grid, the new
\* positions and the returned value
plain_move_agent(g, pos, a, p) ==
    IF InBounds(p) /\ g[p] = 0
    THEN [grid |-> [[g EXCEPT ![pos[a]] = 0] EXCEPT ![p] = 1],
          position |-> [pos EXCEPT ![a] = p],
          ret |-> TRUE]
    ELSE [grid |-> g, position |-> pos, ret |-> FALSE]

\* possible_moves of Agent.move before the shuffle
possible_moves(p) ==
    << <<p[1] + 1, p[2]>>, <<p[1] - 1, p[2]>>,
       <<p[1], p[2] + 1>>, <<p[1], p[2] - 1>> >>

\* a loop that gives up after the first cell
Tried_first(g, order) == SubSeq(order, 1, 1)

\* the cells the loop of Agent.move hands to move_agent, for one order of
\* possible_moves: up to the first one accepted
Tried(g, order) ==
    LET ok == {i \in 1..Len(order) : InBounds(order[i]) /\ g[order[i]] = 0}
    IN  IF ok = {} THEN order
        ELSE SubSeq(order, 1, CHOOSE i \in ok : \A j \in ok : i <= j)

\* an interact in which the caller takes the opinion of the other agent
plain_interact_self(op, a, b, draw) ==
    IF draw THEN [op EXCEPT ![a] = op[b]] ELSE op

\* Agent.interact of the plain variant; draw is TRUE when random.random()
\* falls below influence_strength * other.openness, a product that lies
\* between 0.05 and 0.9
plain_interact(op, a, b, draw) ==
    IF draw THEN [op EXCEPT ![b] = op[a]] ELSE op

\* the agents the interaction loop of the plain step() calls interact with
\* in the turn of a, in order: for each of the four offsets whose cell is
\* in bounds, every agent of the list standing there
PlainScanTargets(ags, pos, a) ==
    LET offsets == << <<1, 0>>, <<-1, 0>>, <<0, 1>>, <<0, -1>> >>
        cellAt(k) == <<pos[a][1] + offsets[k][1], pos[a][2] + offsets[k][2]>>
        at(k) == IF InBounds(cellAt(k))
                 THEN SelectSeq(ags, LAMBDA b : pos[b] = cellAt(k))
                 ELSE <<>>
    IN  at(1) \o at(2) \o at(3) \o at(4)

\* the first random.shuffle of the plain step()
PlainStepBegin ==
    /\ pc = "idle"
    /\ ticks < MaxTicks
    /\ ticks' = ticks + 1
    /\ agents' \in Shuffles(agents)
    /\ pc' = "plain_move"
    /\ idx' = 1
    /\ calls' = <<>>
    /\ last' = Called("step", 0, "None")
    /\ UNCHANGED <<grid, step_count, dims, agentVars, todo, turn, low, nops,
                   created>>

\* one iteration of the movement loop: agent.move(self)
PlainMoveTurn ==
    /\ pc = "plain_move"
    /\ idx <= Len(agents)
    /\ LET a == agents[idx]
       IN  \E order \in Shuffles(possible_moves(position[a])) :
              LET tried == Tried(grid, order)
                  r == plain_move_agent(grid, position, a, tried[Len(tried)])
              IN  /\ grid' = r.grid
                  /\ position' = r.position
                  /\ last' = Called("move", a, [tried |-> tried, ret |-> r.ret])
    /\ idx' = idx + 1
    /\ UNCHANGED <<agents, step_count, dims, opinion, integrity,
                   is_high_integrity, is_student, friends, target_location,
                   assigned, opinion0, pc, todo, calls, turn, low, ticks, nops,
                   created>>

\* the movement loop ends: the second random.shuffle
PlainMoveDone ==
    /\ pc = "plain_move"
    /\ idx > Len(agents)
    /\ agents' \in Shuffles(agents)
    /\ pc' = "plain_interact"
    /\ idx' = 1
    /\ UNCHANGED <<grid, step_count, dims, agentVars, todo, calls, turn, low,
                   last, ticks, nops, created>>

\* one iteration of the interaction loop: the neighbours are looked up (no
\* interact call moves an agent)
PlainScanTurn ==
    /\ pc = "plain_interact"
    /\ idx <= Len(agents)
    /\ LET found == PlainScanTargets(agents, position, agents[idx])
       IN  /\ todo' = found
           /\ IF found # <<>>
              THEN pc' = "plain_call" /\ idx' = idx
              ELSE pc' = "plain_interact" /\ idx' = idx + 1
    /\ UNCHANGED <<envVars, agentVars, calls, turn, low, last, ticks, nops,
                   created>>

\* one agent.interact(other_agent) made by the plain step()
PlainCall ==
    /\ pc = "plain_call"
    /\ todo # <<>>
    /\ \E draw \in BOOLEAN :
          opinion' = plain_interact(opinion, agents[idx], Head(todo), draw)
    /\ calls' = Append(calls, [self |-> agents[idx], other |-> Head(todo),
                               friend |-> FALSE])
    /\ todo' = Tail(todo)
    /\ IF Tail(todo) = <<>>
       THEN pc' = "plain_interact" /\ idx' = idx + 1
       ELSE UNCHANGED <<pc, idx>>
    /\ UNCHANGED <<envVars, position, integrity, is_high_integrity, is_student,
                   friends, target_location, assigned, opinion0, turn, low,
                   last, ticks, nops, created>>

\* the interaction loop ends and the plain step() returns
PlainStepDone ==
    /\ pc = "plain_interact"
    /\ idx > Len(agents)
    /\ pc' = "idle"
    /\ idx' = 0
    /\ UNCHANGED <<envVars, agentVars, todo, calls, turn, low, last, ticks,
                   nops, created>>

\* where the agents start: in a row, or with the first agent shut in a
\* corner by the next two
PlainStarts ==
    {[a \in AgentIds |-> RowMajorCell(a, Width)],
     [a \in AgentIds |-> IF a = 1 THEN <<0, 0>>
                         ELSE IF a = 2 THEN <<1, 0>>
                         ELSE IF a = 3 THEN <<0, 1>>
                         ELSE <<Width - 1, Height - 1>>]}

\* the agents were made with any opinions and added on cells of their own
InitPlain ==
    /\ width = Width
    /\ height = Height
    /\ position \in PlainStarts
    /\ grid = [c \in Cells |->
                  IF \E a \in AgentIds : position[a] = c THEN 1 ELSE 0]
    /\ agents = AllAgents
    /\ created = AllAgents
    /\ step_count = 0
    /\ opinion \in [AgentIds -> Opinions]
    /\ opinion0 = opinion
    /\ is_high_integrity = [a \in AgentIds |-> FALSE]
    /\ integrity = [a \in AgentIds |-> Scale \div 2]
    /\ is_student = [a \in AgentIds |-> FALSE]
    /\ target_location = [a \in AgentIds |-> "home"]
    /\ assigned = [a \in AgentIds |-> NoZones]
    /\ friends = NoFriends
    /\ pc = "idle"
    /\ idx = 0
    /\ todo = <<>>
    /\ calls = <<>>
    /\ turn = NoTurns
    /\ low = {}
    /\ last = Called("init", 0, "None")
    /\ ticks = 0
    /\ nops = 0

NextPlain ==
    \/ PlainStepBegin
    \/ PlainMoveTurn
    \/ PlainMoveDone
    \/ PlainScanTurn
    \/ PlainCall
    \/ PlainStepDone

SpecPlain == InitPlain /\ [][NextPlain]_vars

\* ------------------------------------------------------------------ claims
Occupied == {c \in Cells : grid[c] = 1}

\* C1: occupancy invariant: every tracked agent stands on a cell marked
\* occupied, no two entries of the population share a position, and there
\* are as many occupied cells as tracked agents
C1_OccupancyInvariant ==
    /\ \A i \in 1..Len(agents) :
          InBounds(position[agents[i]]) /\ grid[position[agents[i]]] = 1
    /\ \A i, j \in 1..Len(agents) :
          i # j => position[agents[i]] # position[agents[j]]
    /\ Cardinality(Occupied) = Len(agents)

\* a move_agent(a, p) call: a public one, or the one step() makes for the
\* agent whose turn it is
MoveCall(a, p) ==
    \/ move_agent(a, p)
    \/ pc = "move" /\ idx <= Len(agents) /\ a = agents[idx] /\ MoveTurnWith(p)

\* C2: move rejection: move_agent(a, p) with p out of bounds or occupied
\* (the agent's own cell included) returns False and changes no grid cell,
\* no position and not the population
C2_MoveRejection ==
    [][\A a \in AgentIds, p \in Coords :
          (MoveCall(a, p) /\ ~(InBounds(p) /\ grid[p] = 0))
              => /\ last'.ret = "False"
                 /\ grid' = grid
                 /\ position' = position
                 /\ agents' = agents]_vars

\* a tracked agent was refused its own cell or another occupied cell
C2_Witness ==
    /\ last = Called("move_agent", 0, "False")
    /\ Len(agents) >= 2
    /\ C1_OccupancyInvariant

\* C3: move success: move_agent(a, p) returns True exactly when p is in
\* bounds and unoccupied, and then the agent's old cell is empty, p is
\* occupied, the agent stands on p and nothing else has changed
C3_MoveSuccess ==
    [][\A a \in AgentIds, p \in Coords :
          MoveCall(a, p)
              => /\ (last'.ret = "True") <=> (InBounds(p) /\ grid[p] = 0)
                 /\ last'.ret = "True"
                       => /\ \A c \in Cells :
                                grid'[c] = IF c = p THEN 1
                                           ELSE IF c = position[a] THEN 0
                                           ELSE grid[c]
                          /\ position' = [position EXCEPT ![a] = p]
                          /\ agents' = agents]_vars

\* C4: add_agent(a) returns True, marks the cell and appends the agent iff
\* the agent's position is in bounds and the cell is empty, else returns
\* False and changes nothing; so no agent is ever tracked twice
C4_AddAgent ==
    /\ [][\A a \in AgentIds :
             add_agent(a)
                 => IF InBounds(position[a]) /\ grid[position[a]] = 0
                    THEN /\ last'.ret = "True"
                         /\ grid' = [grid EXCEPT ![position[a]] = 1]
                         /\ agents' = Append(agents, a)
                    ELSE /\ last'.ret = "False"
                         /\ grid' = grid
                         /\ agents' = agents]_vars
    /\ [](\A a \in AgentIds : Count(agents, a) <= 1)

\* C5: remove_agent(a) on a tracked agent frees its cell and drops it from
\* the population; on an agent that is not tracked it changes nothing
C5_RemoveAgent ==
    [][\A a \in AgentIds :
          remove_agent(a)
              => IF In(a, agents)
                 THEN /\ grid' = [grid EXCEPT ![position[a]] = 0]
                      /\ ~In(a, agents')
                      /\ \A b \in AgentIds \ {a} : Count(agents', b) = Count(agents, b)
                 ELSE /\ grid' = grid
                      /\ agents' = agents]_vars

\* C6: integrity bounds: every agent's integrity is within [0, 1] and a
\* high-integrity agent's integrity is exactly 1
C6_IntegrityBounds ==
    \A a \in AgentIds :
        /\ 0 <= integrity[a]
        /\ integrity[a] <= Scale
        /\ is_high_integrity[a] => integrity[a] = Scale

SpatialOver == pc = "spatial" /\ idx > Len(agents)

\* a tick's interactions are over: a high-integrity agent took part in one
\* and an ordinary agent's integrity has moved
C6_Witness ==
    /\ SpatialOver
    /\ \E i \in 1..Len(calls) :
          is_high_integrity[calls[i].self] \/ is_high_integrity[calls[i].other]
    /\ \E a \in AgentIds : ~is_high_integrity[a] /\ integrity[a] \notin InitIntegrities(a)

\* C7: a high-integrity agent's opinion is never changed, so the count of
\* an opinion in the population never falls below the number of tracked
\* high-integrity agents constructed with it
C7_HighIntegrityOpinion ==
    /\ [][\A a \in AgentIds : is_high_integrity[a] => opinion'[a] = opinion[a]]_vars
    /\ [](\A o \in Opinions :
             Cardinality({i \in 1..Len(agents) : opinion[agents[i]] = o})
                 >= Cardinality({i \in 1..Len(agents) :
                                    /\ is_high_integrity[agents[i]]
                                    /\ opinion0[agents[i]] = o}))

\* a high-integrity agent has initiated and received both friend and spatial
\* interactions with an agent of another opinion, who has since changed it
C7_Witness ==
    /\ SpatialOver
    /\ \E h \in AgentIds :
          /\ is_high_integrity[h]
          /\ \A f \in BOOLEAN :
                /\ \E i \in 1..Len(calls) : calls[i].self = h /\ calls[i].friend = f
                /\ \E i \in 1..Len(calls) : calls[i].other = h /\ calls[i].friend = f
          /\ \E a \in AgentIds : opinion0[a] # opinion0[h] /\ opinion[a] = opinion[h]

\* C8: friendship is symmetric, no agent is its own friend, and no friends
\* list holds the same agent twice
C8_FriendshipSymmetry ==
    \A a \in AgentIds :
        /\ \A b \in AgentIds : In(b, friends[a]) <=> In(a, friends[b])
        /\ ~In(a, friends[a])
        /\ \A b \in AgentIds : Count(friends[a], b) <= 1

\* friends were added and one friendship was then removed, leaving an agent
\* with a friend
C8_Witness ==
    /\ last.op = "remove_friend"
    /\ \E a, b \in AgentIds : a # b /\ In(b, friends[a]) /\ Len(friends[b]) = 1
    /\ \E a \in AgentIds : friends[a] = <<>>

SpatialCallsOf(a) ==
    {i \in 1..Len(calls) : ~calls[i].friend /\ calls[i].self = a}

SpatialCallsAt(a) ==
    {i \in 1..Len(calls) : ~calls[i].friend /\ calls[i].other = a}

\* C9 as claimed: an agent whose integrity stays below 1/3 through the
\* spatial pass has radius 0 and takes part in no spatial interaction,
\* neither as the scanning agent nor as the occupant found
C9_ZeroRadiusIsolation ==
    \A a \in low \cap Range(agents) :
        /\ max_range(integrity[a]) = 0
        /\ SpatialCallsOf(a) = {}
        /\ SpatialCallsAt(a) = {}

\* C9 as amended: an agent whose integrity stays below 1/3 through the
\* spatial pass has radius 0 and initiates no spatial interaction
C9_ZeroRadiusInitiates ==
    \A a \in low \cap Range(agents) :
        /\ max_range(integrity[a]) = 0
        /\ SpatialCallsOf(a) = {}

\* the spatial pass is over and an agent that stayed below 1/3 has had its
\* turn next to an agent that found it
C9_Witness ==
    /\ SpatialOver
    /\ \E a \in low \cap Range(agents) : SpatialCallsAt(a) # {}

\* C10: the day cycle: home on [0,10), school or work on [10,80), leisure on
\* [80,100), home on [100,120), by step mod 120 and is_student alone
DayPart(day_step, student) ==
    IF day_step < 10 THEN "home"
    ELSE IF day_step < 80 THEN (IF student THEN "school" ELSE "work")
    ELSE IF day_step < 100 THEN "leisure"
    ELSE "home"

C10_DayCycle ==
    [][\A a \in AgentIds :
          LET step == last'.arg
          IN  update_schedule_call(a, step)
                  => /\ target_location'[a] = DayPart(step % 120, is_student[a])
                     /\ step >= 120 =>
                           target_location'[a] = update_schedule(is_student[a], step - 120)]_vars

\* a student has been scheduled in the second day's school hours and a
\* worker sent to leisure
C10_Witness ==
    /\ last.op = "update_schedule"
    /\ last.arg >= 120
    /\ \E a \in AgentIds : is_student[a] /\ target_location[a] = "school"
    /\ \E a \in AgentIds : ~is_student[a] /\ target_location[a] = "leisure"

FriendCallsFirst ==
    \A i, j \in 1..Len(calls) : (i < j /\ calls[j].friend) => calls[i].friend

\* C11: tick ordering: within one step() every agent has its movement turn
\* before any friend interaction, every agent has its social turn before any
\* spatial turn, step_count changes only when every agent has had its spatial
\* turn, and then by exactly 1; the schedule every agent was moved by is the
\* one of the step_count before that increment
C11_TickOrdering ==
    /\ [](pc = "move"
             => turn.social = {} /\ turn.spatial = {} /\ calls = <<>>)
    /\ [](pc \in {"social", "social_call"}
             => /\ turn.move = Range(agents)
                /\ turn.spatial = {}
                /\ \A i \in 1..Len(calls) : calls[i].friend)
    /\ [](pc \in {"spatial", "spatial_call"}
             => /\ turn.move = Range(agents)
                /\ turn.social = Range(agents)
                /\ FriendCallsFirst)
    /\ [](\A a \in turn.move :
             target_location[a] = DayPart(step_count % 120, is_student[a]))
    /\ [][step_count' # step_count
             => /\ step_count' = step_count + 1
                /\ pc = "spatial" /\ pc' = "idle"
                /\ turn.spatial = Range(agents)
                /\ \A a \in Range(agents) :
                      target_location'[a] = DayPart(step_count % 120, is_student[a])]_vars

\* the tick that began at step 79 has made friend and spatial calls and has
\* just counted itself: the agents were sent to work or school, not to the
\* leisure of step 80
C11_Witness ==
    /\ pc = "idle"
    /\ ticks = 1
    /\ step_count = 80
    /\ \E a \in Range(agents) : target_location[a] \in {"work", "school"}
    /\ \E a, b \in Range(agents) : a # b /\ In(b, friends[a])
    /\ \E a \in Range(agents) : position[a] \notin InitPositions(a)

\* C12: bounded friend degree: when create_environment has called add_friends
\* once for every agent of the population, every agent has at most as many
\* friends as the num_friends it passes
C12_BoundedDegree ==
    pc = "idle" => \A a \in Range(agents) : Len(friends[a]) <= FriendCap

NoRepeats(s) == Cardinality(Range(s)) = Len(s)

Disjoint(s, t) == Range(s) \cap Range(t) = {}

\* C13: the layout of the default 100 x 100 grid is non-overlapping: the four
\* bounds lists are pairwise disjoint, none lists a cell twice, and the
\* home, work-or-school and leisure groups assigned to one agent are disjoint
C13_LayoutDisjoint ==
    (width = default_width /\ height = default_height)
        => /\ NoRepeats(home_bounds)
           /\ NoRepeats(work_bounds)
           /\ NoRepeats(school_bounds)
           /\ NoRepeats(leisure_bounds)
           /\ Disjoint(home_bounds, work_bounds)
           /\ Disjoint(home_bounds, school_bounds)
           /\ Disjoint(home_bounds, leisure_bounds)
           /\ Disjoint(work_bounds, school_bounds)
           /\ Disjoint(work_bounds, leisure_bounds)
           /\ Disjoint(school_bounds, leisure_bounds)
           /\ LET hg == home_groups
                   wg == work_groups
                   sg == school_groups
                   lg == leisure_groups
               IN  \A i \in 0..23, student \in BOOLEAN :
                       LET g == GroupsOf(i, student, hg, wg, sg, lg)
                       IN  /\ Disjoint(g.home, g.work_or_school)
                           /\ Disjoint(g.home, g.leisure)
                           /\ Disjoint(g.work_or_school, g.leisure)

\* C14: a high-integrity agent of opinion 0 and an ordinary agent of opinion
\* 1 alone: the first keeps opinion 0, the second keeps opinion 0 once it has
\* it, and if its draw keeps being tried it has opinion 0 in the end
C14_TwoAgentConvergence ==
    /\ [](opinion[High] = 0)
    /\ [][opinion[Ordinary] = 0 => opinion'[Ordinary] = 0]_vars
    /\ <>(opinion[Ordinary] = 0)

\* the ordinary agent has given up opinion 1 and its integrity has moved
C14_Witness ==
    /\ last.op = "interact"
    /\ opinion0[Ordinary] = 1
    /\ opinion[Ordinary] = 0
    /\ is_high_integrity[High] /\ ~is_high_integrity[Ordinary]
    /\ integrity[Ordinary] \notin InitIntegrities(Ordinary)

Holding(o) == {i \in 1..Len(agents) : opinion[agents[i]] = o}

CountIn(d, o) == IF o \in DOMAIN d THEN d[o] ELSE 0

\* C15: get_opinion_distribution returns, for every opinion held by a tracked
\* agent, the number of tracked agents holding it, and no other key; the
\* values sum to the population size, the keys are among 0, 1, 2 also after
\* a tick, and the call changes no state
C15_OpinionDistribution ==
    [][get_opinion_distribution
          => LET d == last'.ret
             IN  /\ DOMAIN d = {o \in Opinions : Holding(o) # {}}
                 /\ \A o \in DOMAIN d : d[o] = Cardinality(Holding(o))
                 /\ CountIn(d, 0) + CountIn(d, 1) + CountIn(d, 2) = Len(agents)
                 /\ DOMAIN d \subseteq {0, 1, 2}
                 /\ UNCHANGED <<envVars, agentVars, stepVars>>]_vars

\* the opinions were counted after a tick in which a tracked agent changed
\* its opinion, so that one opinion is now held by all
C15_Witness ==
    /\ last.op = "get_opinion_distribution"
    /\ ticks = 1
    /\ Len(agents) >= 2
    /\ \E a \in Range(agents) : opinion[a] # opinion0[a]
    /\ \E o \in Opinions : last.ret = (o :> Len(agents))

Degenerate == last.arg.num_agents > width * height

\* C16: create_environment with num_agents larger than width*height comes to
\* its return; an iteration that finds no empty cell makes no agent and an
\* agent handed over when no cell is empty is not placed; the environment
\* returned holds at most width*height agents, each on a cell of its own
C16_DegenerateSeeding ==
    /\ [](Degenerate => <>(pc = "idle"))
    /\ [][Degenerate /\ pc = "create"
             /\ get_empty_cells(grid, width, height) = <<>>
             => created' = created]_vars
    /\ [][Degenerate /\ pc = "place"
             /\ get_empty_cells(grid, width, height) = <<>>
             => agents' = agents /\ grid' = grid]_vars
    /\ [](Degenerate /\ pc = "idle"
             => /\ Len(agents) <= width * height
                /\ \A i \in 1..Len(agents) :
                      /\ InBounds(position[agents[i]])
                      /\ grid[position[agents[i]]] = 1
                      /\ \A j \in 1..Len(agents) :
                            i # j => position[agents[i]] # position[agents[j]])

\* five agents were asked for on a grid of two cells: three were made, two
\* fill the grid and the third was left out
C16_Witness ==
    /\ pc = "idle"
    /\ last.op = "create_environment"
    /\ last.arg.num_agents > width * height
    /\ width * height = 2
    /\ Len(created) = 3
    /\ Len(agents) = 2
    /\ position[agents[1]] # position[agents[2]]

Abs(n) == IF n < 0 THEN -n ELSE n

Chebyshev(p, q) == Max(Abs(p[1] - q[1]), Abs(p[2] - q[2]))

\* the integer mean of the cells of a zone
Centroid(bounds) ==
    <<SumSeq(bounds, 1) \div Len(bounds), SumSeq(bounds, 2) \div Len(bounds)>>

\* n is one step from m in the direction of t, or m when m = t
Toward(m, n, t) ==
    n = IF m < t THEN m + 1 ELSE IF m > t THEN m - 1 ELSE m

\* C17: outside its non-empty target zone, an agent's proposal differs from
\* its position by at most 1 in x and in y, each component moves toward the
\* zone's centroid, and the proposal is nearer to the centroid (Chebyshev)
\* than the position is
C17_PursuitStep ==
    [][ProposeMoveCall(Mover)
          => LET pos == position[Mover]
                 bounds == TargetBounds(assigned[Mover], target_location[Mover])
                 p == last'.ret
             IN  bounds # <<>> /\ ~In(pos, bounds)
                 => /\ Abs(p[1] - pos[1]) <= 1
                    /\ Abs(p[2] - pos[2]) <= 1
                    /\ Toward(pos[1], p[1], Centroid(bounds)[1])
                    /\ Toward(pos[2], p[2], Centroid(bounds)[2])
                    /\ Chebyshev(p, Centroid(bounds))
                          < Chebyshev(pos, Centroid(bounds))]_vars

\* the zone assigned to a for the target it has
AssignedZone(a) ==
    IF target_location[a] = "home" THEN assigned[a].home
    ELSE IF target_location[a] \in {"work", "school"}
         THEN assigned[a].work_or_school
    ELSE assigned[a].leisure

\* C18: an agent standing in the zone assigned to it for its target proposes
\* a cell of that zone other than its position, or its position when the
\* zone has no other cell; never a cell outside the zone
C18_InZoneMove ==
    [][ProposeMoveCall(Mover) /\ In(position[Mover], AssignedZone(Mover))
          => LET zone == Range(AssignedZone(Mover))
                 p == last'.ret
             IN  /\ p \in zone
                 /\ IF zone = {position[Mover]} THEN p = position[Mover]
                    ELSE p # position[Mover]]_vars

\* the agent stood on one of the three cells of its work zone and has
\* proposed another of them
C18_Witness ==
    /\ last.op = "propose_move"
    /\ target_location[Mover] = "work"
    /\ Len(assigned[Mover].work_or_school) = 3
    /\ In(position[Mover], assigned[Mover].work_or_school)
    /\ In(last.ret, assigned[Mover].work_or_school)
    /\ last.ret # position[Mover]

\* the tracked agents other than a standing within r cells of a in x and y
InSquare(a, r) ==
    {b \in Range(agents) \ {a} :
        /\ Abs(position[b][1] - position[a][1]) <= r
        /\ Abs(position[b][2] - position[a][2]) <= r}

\* C19: in the spatial pass the turn of an agent A fixes, with
\* r = min(3, floor(3 * integrity of A)) at that moment, the agents it will
\* call interact with: every other tracked agent in the square of radius r
\* around A once, none outside it and never A; the calls that follow are
\* made by A to exactly these, one each, before the next turn begins
C19_SpatialPass ==
    /\ [][pc = "spatial" /\ idx <= Len(agents)
             => LET A == agents[idx]
                    r == Min(3, (3 * integrity[A]) \div Scale)
                IN  /\ Range(todo') = InSquare(A, r)
                    /\ Len(todo') = Cardinality(InSquare(A, r))
                    /\ ~In(A, todo')
                    /\ SpatialCallsOf(A) = {}
                    /\ pc' = "spatial" <=> todo' = <<>>]_vars
    /\ [][pc = "spatial_call"
             => /\ todo # <<>>
                /\ calls' = Append(calls, [self |-> agents[idx],
                                            other |-> Head(todo),
                                            friend |-> FALSE])
                /\ todo' = Tail(todo)
                /\ position' = position
                /\ agents' = agents
                /\ pc' = "spatial" <=> todo' = <<>>
                /\ pc' = "spatial_call" <=> todo' # <<>>
                /\ idx' = IF todo' = <<>> THEN idx + 1 ELSE idx]_vars

\* both spatial turns of a tick are over and exactly one call was made: the
\* caller reached its neighbour, whose own range did not reach back
C19_Witness ==
    /\ pc = "spatial"
    /\ Len(agents) = 2
    /\ idx > Len(agents)
    /\ \E a \in Range(agents) :
          /\ Cardinality(SpatialCallsOf(a)) = 1
          /\ \A b \in Range(agents) \ {a} : SpatialCallsOf(b) = {}
          /\ \A k \in SpatialCallsOf(a) : calls[k].other # a

FriendCallsOf(a) == {k \in 1..Len(calls) : calls[k].friend /\ calls[k].self = a}

SocialPassOver ==
    \/ pc = "social" /\ idx > Len(agents)
    \/ pc \in {"spatial", "spatial_call"}

\* C20: in the friend loop the turn of an agent with friends draws n of
\* them, all different, with 1 <= n <= min(3, number of friends), and the
\* agent then calls interact(friend, True) on each of them once; the turn of
\* an agent without friends makes no call; when the loop is over every agent
\* with friends has made between 1 and min(3, number of friends) friend
\* calls, an agent without friends none, no friend was called twice by the
\* same agent, and every agent called is in its caller's friends list
C20_SocialPass ==
    /\ [][pc = "social" /\ idx <= Len(agents)
             => LET A == agents[idx]
                    n == Len(todo')
                IN  IF friends[A] = <<>>
                    THEN todo' = <<>> /\ pc' = "social" /\ calls' = calls
                    ELSE /\ 1 <= n
                         /\ n <= Min(3, Len(friends[A]))
                         /\ Cardinality(Range(todo')) = n
                         /\ Range(todo') \subseteq Range(friends[A])
                         /\ FriendCallsOf(A) = {}
                         /\ pc' = "social_call"]_vars
    /\ [][pc = "social_call"
             => /\ todo # <<>>
                /\ calls' = Append(calls, [self |-> agents[idx],
                                            other |-> Head(todo),
                                            friend |-> TRUE])
                /\ todo' = Tail(todo)
                /\ friends' = friends
                /\ agents' = agents
                /\ pc' = "social" <=> todo' = <<>>
                /\ idx' = IF todo' = <<>> THEN idx + 1 ELSE idx]_vars
    /\ [](\A k \in 1..Len(calls) :
             calls[k].friend
             => /\ In(calls[k].other, friends[calls[k].self])
                /\ \A j \in 1..Len(calls) :
                      /\ calls[j].friend
                      /\ calls[j].self = calls[k].self
                      /\ calls[j].other = calls[k].other
                      => j = k)
    /\ [](SocialPassOver
             => \A a \in Range(agents) :
                   IF friends[a] = <<>> THEN FriendCallsOf(a) = {}
                   ELSE /\ 1 <= Cardinality(FriendCallsOf(a))
                        /\ Cardinality(FriendCallsOf(a))
                              <= Min(3, Len(friends[a])))

\* the loop is over: the agent with more than three friends has called
\* three of them, the agent without friends nobody
C20_Witness ==
    /\ pc = "social"
    /\ idx > Len(agents)
    /\ \E a \in Range(agents) :
          /\ Len(friends[a]) > 3
          /\ Cardinality(FriendCallsOf(a)) = 3
    /\ \E a \in Range(agents) : friends[a] = <<>> /\ FriendCallsOf(a) = {}

\* the neighbour cells of a the grid would accept
FreeNeighbours(a) ==
    {q \in Range(possible_moves(position[a])) : InBounds(q) /\ grid[q] = 0}

\* C21: in its movement turn a plain agent hands exactly one of its four
\* neighbour cells to the grid, and stays where it is when that cell is
\* rejected, even when another neighbour cell is free
C21_SingleProposal ==
    [][pc = "plain_move" /\ idx <= Len(agents)
          => LET a == agents[idx]
                 tried == last'.ret.tried
             IN  /\ Len(tried) = 1
                 /\ tried[1] \in Range(possible_moves(position[a]))
                 /\ tried[1] \notin FreeNeighbours(a)
                       => position'[a] = position[a]]_vars

\* C21 as amended: in its movement turn a plain agent hands its neighbour
\* cells to the grid one after the other, in a random order, until one is
\* accepted: it moves to the first cell of that order that is in bounds and
\* empty, and stays where it is only when all four are rejected
C21_FirstFreeNeighbour ==
    [][pc = "plain_move" /\ idx <= Len(agents)
          => LET a == agents[idx]
                 tried == last'.ret.tried
                 n == Len(tried)
             IN  /\ n \in 1..4
                 /\ Range(tried) \subseteq Range(possible_moves(position[a]))
                 /\ Cardinality(Range(tried)) = n
                 /\ \A i \in 1..(n - 1) : tried[i] \notin FreeNeighbours(a)
                 /\ \A b \in Range(agents) \ {a} : position'[b] = position[b]
                 /\ IF FreeNeighbours(a) = {}
                    THEN /\ n = 4
                         /\ position'[a] = position[a]
                         /\ grid' = grid
                         /\ ~last'.ret.ret
                    ELSE /\ tried[n] \in FreeNeighbours(a)
                         /\ position'[a] = tried[n]
                         /\ grid' = [[grid EXCEPT ![position[a]] = 0]
                                        EXCEPT ![tried[n]] = 1]
                         /\ last'.ret.ret]_vars

\* an agent has moved to the third cell it tried, the first two having been
\* rejected
C21_Witness ==
    /\ pc = "plain_move"
    /\ last.op = "move"
    /\ Len(last.ret.tried) = 3
    /\ last.ret.ret
    /\ position[last.arg] = last.ret.tried[3]
    /\ grid[last.ret.tried[3]] = 1

\* C22: a plain interaction between agents of different opinions can change
\* either side, each side decided independently: the initiator alone may
\* adopt, the other alone may adopt, both may, or neither; between agents of
\* equal opinions it changes nothing
C22_EitherSide ==
    pc = "plain_call"
    => LET a == agents[idx]
           b == Head(todo)
       IN  IF opinion[a] # opinion[b]
           THEN /\ ENABLED (PlainCall /\ opinion'[a] = opinion[b]
                                      /\ opinion'[b] = opinion[b])
                /\ ENABLED (PlainCall /\ opinion'[a] = opinion[a]
                                      /\ opinion'[b] = opinion[a])
                /\ ENABLED (PlainCall /\ opinion'[a] = opinion[b]
                                      /\ opinion'[b] = opinion[a])
                /\ ENABLED (PlainCall /\ opinion' = opinion)
           ELSE ~ENABLED (PlainCall /\ opinion' # opinion)

\* C22 as amended: a plain interaction can change only the agent interacted
\* with, which may adopt the initiator's opinion or keep its own; the
\* initiator never changes in its own call, no third agent changes, and
\* between agents of equal opinions nothing changes
C22_OtherSideOnly ==
    /\ [][pc = "plain_call"
             => LET a == agents[idx]
                    b == Head(todo)
                IN  /\ opinion'[a] = opinion[a]
                    /\ opinion'[b] \in {opinion[b], opinion[a]}
                    /\ \A c \in AgentIds \ {b} : opinion'[c] = opinion[c]
                    /\ opinion[a] = opinion[b] => opinion' = opinion]_vars
    /\ [](pc = "plain_call"
             => /\ ENABLED (PlainCall /\ opinion' = opinion)
                /\ ENABLED (PlainCall /\ opinion'[Head(todo)]
                                            = opinion[agents[idx]]))

\* the first interaction of a tick is over: the agent interacted with has
\* given up its opinion for that of the initiator, which kept its own
C22_Witness ==
    /\ Len(calls) = 1
    /\ ticks = 1
    /\ opinion0[calls[1].other] # opinion0[calls[1].self]
    /\ opinion[calls[1].other] = opinion0[calls[1].self]
    /\ opinion[calls[1].self] = opinion0[calls[1].self]

\* (1 - own integrity) * other's integrity * 0.5, times 0.0625 between
\* friends, in units of 1 / (32 * Scale * Scale)
ProbabilityFrom(ig, own, other, is_friend) ==
    (Scale - ig[own]) * ig[other] * (IF is_friend THEN 1 ELSE 16)

\* C23: inside interact(self, other) both integrity updates come before
\* either opinion decision: the change probability of each side is
\* (1 - own integrity) * other's integrity * 0.5 of the integrities both
\* have after the updates; and self decides before other, so that other,
\* when it changes, takes the opinion self has after its own decision
C23_InteractionOrder ==
    [][nops' = nops + 1 /\ last'.op = "interact"
          => LET a == last'.arg.self
                 b == last'.arg.other
                 is_friend == last'.arg.is_friend
                 cp == last'.arg.change_probability
             IN  \A draw1 \in BOOLEAN, draw2 \in BOOLEAN :
                    interact_call(a, b, is_friend, last'.arg.is_positive,
                                  draw1, draw2)
                    => /\ ~is_high_integrity[a]
                          => cp[1] = ProbabilityFrom(integrity', a, b, is_friend)
                       /\ ~is_high_integrity[b]
                          => cp[2] = ProbabilityFrom(integrity', b, a, is_friend)
                       /\ opinion'[a] =
                             IF ~is_high_integrity[a] /\ draw1 /\ cp[1] > 0
                             THEN opinion[b] ELSE opinion[a]
                       /\ opinion'[b] =
                             IF ~is_high_integrity[b] /\ draw2 /\ cp[2] > 0
                             THEN opinion'[a] ELSE opinion[b]]_vars

\* the first call was between two ordinary agents of different opinions:
\* both integrities moved, the probabilities were taken from the moved
\* values, and both agents now hold the opinion other had
C23_Witness ==
    /\ nops = 1
    /\ last.op = "interact"
    /\ ~last.arg.is_friend
    /\ LET a == last.arg.self
           b == last.arg.other
       IN  /\ ~is_high_integrity[a]
           /\ ~is_high_integrity[b]
           /\ opinion0[a] # opinion0[b]
           /\ opinion[a] = opinion0[b]
           /\ opinion[b] = opinion0[b]
           /\ integrity[a] \notin InitIntegrities(a)
           /\ integrity[b] \notin InitIntegrities(b)
           /\ last.arg.change_probability[1]
                 = ProbabilityFrom(integrity, a, b, FALSE)

\* C24: one interact call uses one positive/negative outcome and the
\* same_opinion flag of the opinions held when it is called for both
\* participants: the integrity of each participant that is not
\* high-integrity does not decrease when (same opinion and positive) or
\* (different opinion and negative) and does not increase otherwise, so both
\* move in the same direction; a high-integrity participant and every agent
\* outside the call keep their integrity
C24_IntegrityDirection ==
    [][nops' = nops + 1 /\ last'.op = "interact"
          => LET a == last'.arg.self
                 b == last'.arg.other
                 same_opinion == opinion[a] = opinion[b]
                 is_positive == last'.arg.is_positive
             IN  /\ \A x \in {a, b} :
                       IF is_high_integrity[x] THEN integrity'[x] = integrity[x]
                       ELSE IF same_opinion = is_positive
                       THEN integrity'[x] >= integrity[x]
                       ELSE integrity'[x] <= integrity[x]
                 /\ \A x \in AgentIds \ {a, b} : integrity'[x] = integrity[x]
                 /\ ~is_high_integrity[a] /\ ~is_high_integrity[b]
                       => /\ integrity'[a] > integrity[a]
                                => integrity'[b] >= integrity[b]
                          /\ integrity'[a] < integrity[a]
                                => integrity'[b] <= integrity[b]]_vars

\* the first call was a positive interaction between two ordinary agents of
\* different opinions: both have lost integrity
C24_Witness ==
    /\ nops = 1
    /\ last.op = "interact"
    /\ last.arg.is_positive
    /\ LET a == last.arg.self
           b == last.arg.other
       IN  /\ ~is_high_integrity[a]
           /\ ~is_high_integrity[b]
           /\ opinion0[a] # opinion0[b]
           /\ \A v \in InitIntegrities(a) : integrity[a] < v
           /\ \A v \in InitIntegrities(b) : integrity[b] < v

\* the agents a call of a.add_friends(agents, k) can choose from
Candidates(a) ==
    {b \in Range(agents) \ {a} : ~In(b, friends[a]) /\ opinion[b] = opinion[a]}

\* C25: a call a.add_friends(population, k) appends exactly
\* min(k, number of candidates) new friends to a, all of them candidates
\* (agents of the population other than a, not yet friends of a, of a's
\* opinion); each of them gets a as a friend in turn and nobody else's list
\* changes; so during and after the construction all friends are mutual and
\* of one opinion
C25_AddFriends ==
    /\ [][pc = "befriend" /\ idx <= Len(agents)
             => LET a == agents[idx]
                    added == Range(friends'[a]) \ Range(friends[a])
                    n == Min(FriendCap, Cardinality(Candidates(a)))
                IN  /\ Len(friends'[a]) = Len(friends[a]) + n
                    /\ SubSeq(friends'[a], 1, Len(friends[a])) = friends[a]
                    /\ Cardinality(added) = n
                    /\ added \subseteq Candidates(a)
                    /\ \A b \in added : friends'[b] = Append(friends[b], a)
                    /\ \A b \in AgentIds \ (added \cup {a}) :
                          friends'[b] = friends[b]]_vars
    /\ [](pc \in {"befriend", "idle"}
             => \A a \in Range(agents) : \A b \in Range(friends[a]) :
                   opinion[a] = opinion[b] /\ In(a, friends[b]))

\* the construction is over: every agent has a friend, and one has two,
\* having chosen one and been chosen by the other
C25_Witness ==
    /\ pc = "idle"
    /\ last.op = "create_environment"
    /\ \A a \in Range(agents) : friends[a] # <<>>
    /\ \E a \in Range(agents) : Len(friends[a]) = 2

InteractionPass == pc \in {"social", "social_call", "spatial", "spatial_call"}

\* C26: the steps of the movement pass change no opinion and no integrity;
\* the steps of the social and of the spatial pass change no position and no
\* grid cell; no step of step() changes a friends list, an is_high_integrity
\* or is_student flag or a zone assignment, and the population keeps its
\* members, each as often as before, whatever their order
C26_PassFrames ==
    /\ [][pc = "move" => opinion' = opinion /\ integrity' = integrity]_vars
    /\ [][InteractionPass => position' = position /\ grid' = grid]_vars
    /\ [][/\ friends' = friends
          /\ is_high_integrity' = is_high_integrity
          /\ is_student' = is_student
          /\ assigned' = assigned
          /\ Len(agents') = Len(agents)
          /\ \A a \in AgentIds : Count(agents', a) = Count(agents, a)]_vars

\* a tick is over in which the list was reordered, an agent moved and an
\* agent changed its opinion and its integrity
C26_Witness ==
    /\ pc = "idle"
    /\ ticks = 1
    /\ agents = <<2, 1>>
    /\ position[2] # <<1, 0>>
    /\ opinion[2] # opinion0[2]
    /\ integrity[2] \notin InitIntegrities(2)
    /\ friends[2] # <<>>

\* C27: every turn of the movement loop hands one proposal of the agent whose
\* turn it is to the grid as the earlier turns of the pass left it: the agent
\* stands on the proposed cell afterwards, its old cell empty, exactly when
\* the cell is in bounds and empty at that moment, and nothing moves
\* otherwise; no agent has had a turn before its own, and when the loop is
\* over every agent has had one
C27_SequentialCommit ==
    /\ [][\A p \in Coords : MoveTurnWith(p) =>
              LET a == agents[idx]
              IN  /\ a \notin turn.move
                  /\ turn'.move = turn.move \cup {a}
                  /\ IF InBounds(p) /\ grid[p] = 0
                     THEN /\ position' = [position EXCEPT ![a] = p]
                          /\ grid' = [[grid EXCEPT ![position[a]] = 0]
                                          EXCEPT ![p] = 1]
                          /\ last'.ret = "True"
                     ELSE /\ position' = position
                          /\ grid' = grid
                          /\ last'.ret = "False"]_vars
    /\ [][pc = "move" /\ pc' # "move" =>
              idx = Len(agents) + 1 /\ turn.move = Range(agents)]_vars

\* the first agent has stepped from the origin onto the cell beside it; the
\* second, whose turn is next, can propose that cell and is turned away, and
\* can propose the origin and enters it
C27_Witness ==
    /\ pc = "move"
    /\ idx = 2
    /\ agents = <<1, 2>>
    /\ position[1] = <<1, 0>>
    /\ position[2] = <<0, 1>>
    /\ grid[<<0, 0>>] = 0
    /\ ENABLED (MoveTurnWith(<<1, 0>>) /\ position' = position)
    /\ ENABLED (MoveTurnWith(<<0, 0>>) /\ position'[2] = <<0, 0>>)

\* C28: the iteration of the assignment loop for the agent made as the i-th
\* (from 0) hands it home group i mod 12, leisure group i mod 8 and group
\* i mod 6 of the school groups if it is a student, of the work groups if
\* not, and touches no other agent's zones; no step after the loop, of
\* create_environment or of step(), changes any agent's zones
C28_RoundRobinZones ==
    /\ [][pc = "place" /\ idx <= Len(created) =>
              LET i == idx - 1
                  a == created[idx]
              IN  /\ assigned'[a].home = home_groups[(i % 12) + 1]
                  /\ assigned'[a].leisure = leisure_groups[(i % 8) + 1]
                  /\ assigned'[a].work_or_school =
                        IF is_student[a] THEN school_groups[(i % 6) + 1]
                        ELSE work_groups[(i % 6) + 1]
                  /\ \A b \in Made \ {a} : assigned'[b] = assigned[b]]_vars
    /\ [][pc # "place" \/ idx > Len(created) => assigned' = assigned]_vars

\* a tick is over on the default grid; the thirteenth agent made has the
\* home group of the first, the ninth its leisure group, the seventh its
\* work group, and both tracked agents have left their cells for their homes
C28_Witness ==
    /\ pc = "idle"
    /\ ticks = 1
    /\ Len(home_groups) = 12 /\ Len(leisure_groups) = 8
    /\ Len(work_groups) = 6 /\ Len(school_groups) = 6
    /\ assigned[13].home = assigned[1].home
    /\ assigned[9].leisure = assigned[1].leisure
    /\ assigned[7].work_or_school = assigned[1].work_or_school
    /\ assigned[8].work_or_school = school_groups[2]
    /\ assigned[1].home # <<>>
    /\ assigned[2].home # assigned[1].home
    /\ \A a \in Range(agents) : position[a] # InitAssignPosition(a)

OccupiedCells == {c \in CellsOf(width, height) : grid[c] # 0}

\* C29: the list get_empty_cells returns holds the cells of the grid whose
\* value is 0 and nothing else, each once, a cell of a lower row before one
\* of a higher row and within a row the lower x first; its length is
\* width * height less the number of occupied cells; the call changes
\* neither the environment nor any agent
C29_EmptyCells ==
    /\ [](last.op = "get_empty_cells" =>
            LET cells == last.ret
            IN  /\ Range(cells) = {c \in CellsOf(width, height) : grid[c] = 0}
                /\ \A i, j \in 1..Len(cells) :
                       i < j => \/ cells[i][2] < cells[j][2]
                                \/ /\ cells[i][2] = cells[j][2]
                                   /\ cells[i][1] < cells[j][1]
                /\ Len(cells) = width * height - Cardinality(OccupiedCells))
    /\ [][last'.op = "get_empty_cells" =>
              UNCHANGED <<envVars, agentVars, stepVars>>]_vars

\* the call has returned the four empty cells of a grid with two agents on
\* it, cells of both rows among them
C29_Witness ==
    /\ last.op = "get_empty_cells"
    /\ Len(agents) = 2
    /\ Cardinality(OccupiedCells) = 2
    /\ Len(last.ret) = 4
    /\ \E i, j \in 1..4 : last.ret[i][2] = 0 /\ last.ret[j][2] = 1
    /\ \E i \in 1..3 : last.ret[i][2] = last.ret[i + 1][2]

\* the zones an agent can be sent to: the bounds of a kind as a whole and
\* every group they are divided into
ZonesOfLayout ==
    {home_bounds, work_bounds, school_bounds, leisure_bounds}
        \cup Range(home_groups) \cup Range(work_groups)
        \cup Range(school_groups) \cup Range(leisure_groups)

GridCorners ==
    {<<0, 0>>, <<width - 1, 0>>, <<0, height - 1>>, <<width - 1, height - 1>>}

\* C30: whatever the width and the height, once _setup_structure_bounds has
\* run every cell of the four bounds lies on the grid; the centroid of every
\* non-empty zone lies on the grid, and the step toward it from any cell of
\* the grid, the corners included, ends on the grid
C30_ZonesOnGrid ==
    last.op = "_setup_structure_bounds" =>
        /\ \A c \in Range(home_bounds) \cup Range(work_bounds)
                    \cup Range(school_bounds) \cup Range(leisure_bounds) :
               0 <= c[1] /\ c[1] < width /\ 0 <= c[2] /\ c[2] < height
        /\ \A z \in ZonesOfLayout \ {<<>>} :
               LET target_pos == Centroid(z)
               IN  /\ InBounds(target_pos)
                   /\ \A p \in CellsOf(width, height) :
                          InBounds(move_toward_target(p, target_pos))
                   /\ \A p \in GridCorners :
                          InBounds(move_toward_structure(
                              p, [NoZones EXCEPT !.home = z], "home"))

\* the bounds are set up on a grid of 17 by 59 cells, which holds the home
\* block that starts at x = 0 and the one that ends by the grid's edge, and
\* on which some zone's centroid is off the corner cells
C30_Witness ==
    /\ last.op = "_setup_structure_bounds"
    /\ width = 17
    /\ height = 59
    /\ In(<<0, 44>>, home_bounds)
    /\ In(<<15, 15>>, home_bounds)
    /\ Len(home_groups) = 12
    /\ \E z \in Range(home_groups) :
          z # <<>> /\ move_toward_target(<<16, 58>>, Centroid(z)) = <<15, 57>>

\* C33: every interact call a tick makes has tracked agents on both sides,
\* so an agent that remove_agent dropped takes part in none
C33_RemovedIsOut ==
    \A k \in 1..Len(calls) :
        In(calls[k].self, agents) /\ In(calls[k].other, agents)

\* the opinion values held in the population
HeldOpinions == {opinion[a] : a \in Range(agents)}

\* C31: no step gives the population an opinion value none of its agents
\* held just before: the set of the values held never grows, so a value
\* whose count is 0 stays at 0
C31_ExtinctionAbsorbing == [][HeldOpinions' \subseteq HeldOpinions]_vars

\* C32: after a call a.interact(b) between agents of different opinions
\* either both hold the opinion they had or both hold the same opinion, one
\* of the two they had; they never end with each other's
C32_NoSwap ==
    [][nops' = nops + 1 /\ last'.op = "interact" =>
          LET a == last'.arg.self
              b == last'.arg.other
          IN  opinion[a] # opinion[b] =>
                  /\ \/ opinion'[a] = opinion[a] /\ opinion'[b] = opinion[b]
                     \/ /\ opinion'[a] = opinion'[b]
                        /\ opinion'[a] \in {opinion[a], opinion[b]}
                  /\ ~(opinion'[a] = opinion[b] /\ opinion'[b] = opinion[a])]_vars

\* the first call was made between agents of different opinions, neither of
\* high integrity, and both hold the other party's opinion now
C32_Witness ==
    /\ nops = 1
    /\ last.op = "interact"
    /\ last.arg.change_probability[1] > 0
    /\ last.arg.change_probability[2] > 0
    /\ opinion0[last.arg.self] # opinion0[last.arg.other]
    /\ opinion[last.arg.self] = opinion0[last.arg.other]
    /\ opinion[last.arg.other] = opinion0[last.arg.other]

\* C34: when create_environment has returned and the agents it was to make,
\* 3 * (R \div 3) + 3 * (H \div 3) of them, are no more than the grid has
\* cells, the population holds that many agents, each on a cell of its own
C34_EveryAgentPlaced ==
    (pc = "idle" /\ last.op = "create_environment"
        /\ Len(Plan) <= width * height) =>
        /\ Len(agents) = Len(Plan)
        /\ \A i, j \in 1..Len(agents) :
               i # j => position[agents[i]] # position[agents[j]]

\* C35: the agent alone on the grid, its target held, comes to stand on a
\* cell of the zone assigned for that target and stays on cells of that zone
\* from then on
C35_ZoneReached ==
    <>[](is_in_target_structure(position[Mover], assigned[Mover],
                                target_location[Mover]))

\* C36: no interact call a tick makes, in the friend loop or in the scan of
\* the neighbourhood, has the same agent on both sides
C36_NoSelfInteraction ==
    \A k \in 1..Len(calls) : calls[k].self # calls[k].other

\* after add_agent and add_friend calls a tick has made a friend call and a
\* call to a neighbour
C36_Witness ==
    /\ nops >= 3
    /\ pc \in {"spatial", "spatial_call"}
    /\ \E k \in 1..Len(calls) : calls[k].friend
    /\ \E k \in 1..Len(calls) : ~calls[k].friend

====
